---- MODULE Spec2Model ----
(***************************************************************************)
(* Astroport passive-concentrated-liquidity pair on Osmosis                *)
(* (contracts/pair_concentrated): the storage items of the pair contract,   *)
(* the bank ledger it reads through the querier, and one action per entry   *)
(* point (ProvideLiquidity, WithdrawLiquidity, Swap, UpdateConfig, sudo     *)
(* SwapExactAmountIn, sudo SwapExactAmountOut).                             *)
(*                                                                         *)
(* Numbers.  cosmwasm Decimal256 is a fixed-point number with 18            *)
(* fractional digits and token amounts are integers with 6 digits.  TLC    *)
(* integers are 32 bits wide, so the model keeps the same two-level         *)
(* representation at a smaller scale: a decimal is the integer              *)
(* value * DECIMAL_FRACTIONAL with three fractional digits, token and LP    *)
(* amounts are integers with two digits.  MIN_TRADE_SIZE and                *)
(* MINIMUM_LIQUIDITY_AMOUNT are scaled with them (both stay several token   *)
(* units large, and a token unit stays larger than a decimal unit).         *)
(*                                                                         *)
(* Library code.  The curve solver (calc_d, calc_y, get_xcp), the fee       *)
(* formula, compute_swap, update_price and the observation helpers live in  *)
(* the crates astroport / astroport_pcl_common and in the pair's utils.rs;  *)
(* the operators that stand for them are marked as such below.  The curve   *)
(* is a concentrated two-asset curve in closed form (see calc_d).           *)
(***************************************************************************)
EXTENDS Integers, Sequences, FiniteSets, TLC

\* ------------------------------------------------------------------------
\* Bounds of the model
\* ------------------------------------------------------------------------
MaxOps == 3
MaxTicks == 2

\* ------------------------------------------------------------------------
\* Fixed-point arithmetic (cosmwasm_std::Decimal256, scaled)
\* ------------------------------------------------------------------------
DECIMAL_FRACTIONAL == 1000
ONE == DECIMAL_FRACTIONAL
\* number of decimal digits of a pool asset (Precisions) and of the LP token
ASSET_PRECISION == 2
LP_TOKEN_PRECISION == 2
\* astroport::pair::MIN_TRADE_SIZE, a decimal
MIN_TRADE_SIZE == 50
\* astroport::asset::MINIMUM_LIQUIDITY_AMOUNT, in LP token units
MINIMUM_LIQUIDITY_AMOUNT == 5
\* astroport::observation::OBSERVATIONS_SIZE
OBSERVATIONS_SIZE == 2

NONE == 0 - 1

Max(a, b) == IF a >= b THEN a ELSE b
Min(a, b) == IF a <= b THEN a ELSE b
AbsDiff(a, b) == IF a >= b THEN a - b ELSE b - a
SatSub(a, b) == IF a >= b THEN a - b ELSE 0

RECURSIVE Pow10(_)
Pow10(n) == IF n = 0 THEN 1 ELSE 10 * Pow10(n - 1)

RECURSIVE Pow2(_)
Pow2(n) == IF n = 0 THEN 1 ELSE 2 * Pow2(n - 1)

\* Decimal256 * Decimal256 and Decimal256 / Decimal256 round down
DMul(a, b) == (a * b) \div ONE
DDiv(a, b) == (a * ONE) \div b
\* Decimal256::from_ratio of two integers
FromRatio(n, d) == (n * ONE) \div d

\* integer square root by bisection
RECURSIVE ISqrtIter(_, _, _)
ISqrtIter(n, lo, hi) ==
    IF lo >= hi THEN lo
    ELSE LET mid == (lo + hi + 1) \div 2
         IN IF mid * mid <= n THEN ISqrtIter(n, mid, hi)
            ELSE ISqrtIter(n, lo, mid - 1)
ISqrt(n) == ISqrtIter(n, 0, Min(n, 46340))
\* Decimal256::sqrt
DSqrt(a) == ISqrt(a * ONE)

\* IntegerToDecimal::to_decimal256(precision) and DecimalToInteger::to_uint
ToDecimal(amount, prec) == amount * (ONE \div Pow10(prec))
ToUint(dec, prec) == dec \div (ONE \div Pow10(prec))

\* ------------------------------------------------------------------------
\* Curve (astroport_pcl_common::calc_d, calc_y, get_xcp)
\* ------------------------------------------------------------------------
\* The invariant D of internal balances xp = <<x0, x1 * price_scale>>: the
\* positive root of (x0 + D/2)(x1 + D/2) = D^2, a curve between constant sum
\* and constant product that is concentrated around x0 = x1 = D/2.
calc_d(xp) ==
    LET S == xp[1] + xp[2]
    IN (S + ISqrt(S * S + 12 * xp[1] * xp[2])) \div 3

\* the balance of the ask asset that keeps D given the other balance x,
\* rounded up: the solver's error never pays the trader
calc_y(x, d) ==
    LET den == 2 * (2 * x + d)
    IN (3 * d * d - 2 * x * d + den - 1) \div den

\* get_xcp: d / (N * sqrt(price_scale))
get_xcp(d, price_scale) == DDiv(d, 2 * DSqrt(price_scale))

\* ------------------------------------------------------------------------
\* Fees and swap arithmetic (astroport_pcl_common::state::PoolParams::fee,
\* utils::compute_swap, utils::compute_offer_amount, utils::calc_provide_fee)
\* ------------------------------------------------------------------------
\* PoolParams::fee: between mid_fee (balanced pool) and out_fee
fee(params, xp) ==
    LET sum == xp[1] + xp[2]
        k0  == DDiv(DMul(xp[1], xp[2]) * 4, DMul(sum, sum))
        k1  == DDiv(params.fee_gamma, params.fee_gamma + ONE - k0)
        k   == IF k1 <= 1 THEN 0 ELSE k1
    IN DMul(k, params.mid_fee) + DMul(ONE - k, params.out_fee)

\* compute_swap: xs are the pool balances without the offer, as decimals.
\* The swap fails when the curve has no positive balance left for the ask
\* asset.
compute_swap(xs, offer_amount, ask_ind, cfg, maker_fee_share) ==
    LET offer_ind == 3 - ask_ind
        ps   == cfg.price_state.price_scale
        ixs  == <<xs[1], DMul(xs[2], ps)>>
        d    == calc_d(ixs)
        off  == IF offer_ind = 2 THEN DMul(offer_amount, ps) ELSE offer_amount
        x_in == ixs[offer_ind] + off
        new_y == calc_y(x_in, d)
        dy_i == ixs[ask_ind] - new_y
        ixs2 == [ixs EXCEPT ![offer_ind] = x_in, ![ask_ind] = new_y]
        dy0  == IF ask_ind = 2 THEN DDiv(dy_i, ps) ELSE dy_i
        price == IF ask_ind = 2 THEN DDiv(ONE, ps) ELSE ps
        spread_fee == SatSub(DMul(offer_amount, price), dy0)
        fee_rate  == fee(cfg.pool_params, ixs2)
        total_fee == DMul(fee_rate, dy0)
        maker_fee == DMul(total_fee, maker_fee_share)
    IN IF new_y <= 0
       THEN [ok |-> FALSE, dy |-> 0, spread_fee |-> 0, maker_fee |-> 0,
             share_fee |-> 0, total_fee |-> 0]
       ELSE [ok |-> TRUE, dy |-> dy0 - total_fee, spread_fee |-> spread_fee,
             maker_fee |-> maker_fee, share_fee |-> 0, total_fee |-> total_fee]

\* SwapResult::calc_last_price
calc_last_price(res, offer_amount, offer_ind) ==
    IF offer_ind = 1
    THEN DDiv(offer_amount, res.dy + res.maker_fee + res.share_fee)
    ELSE DDiv(res.dy + res.maker_fee + res.share_fee, offer_amount)

\* compute_offer_amount: the offer needed for want_amount of the ask asset,
\* sized with the maximum fee rate out_fee
compute_offer_amount(xs, want_amount, ask_ind, cfg) ==
    LET offer_ind == 3 - ask_ind
        ps   == cfg.price_state.price_scale
        want == IF ask_ind = 2 THEN DMul(want_amount, ps) ELSE want_amount
        ixs  == <<xs[1], DMul(xs[2], ps)>>
        d    == calc_d(ixs)
        before_fee == DMul(want, DDiv(ONE, ONE - cfg.pool_params.out_fee))
        y_left == ixs[ask_ind] - before_fee
        new_x  == calc_y(y_left, d)
        dx   == new_x - ixs[offer_ind]
    IN IF y_left <= 0 THEN [ok |-> FALSE, offer_amount |-> 0]
       ELSE [ok |-> TRUE,
             offer_amount |-> IF offer_ind = 2 THEN DDiv(dx, ps) ELSE dx]

\* calc_provide_fee: the fee rate times the share of the deposit that is
\* off balance
calc_provide_fee(deposits, xp, params) ==
    LET sum == deposits[1] + deposits[2]
        avg == sum \div 2
    IN DDiv(DMul(AbsDiff(deposits[1], avg), fee(params, xp)), sum)

\* get_share_in_assets: pool balances times amount / total_share
get_share_in_assets(pools, amount, total_share) ==
    LET share_ratio == IF total_share # 0 THEN FromRatio(amount, total_share) ELSE 0
    IN <<DMul(pools[1], share_ratio), DMul(pools[2], share_ratio)>>

\* ------------------------------------------------------------------------
\* Oracle and repeg (astroport_pcl_common::state::PoolState)
\* ------------------------------------------------------------------------
\* Faulty variant of get_amp_gamma: the target values apply at once.
get_amp_gamma_Future(pool_state, now) == pool_state.future

\* PoolState::get_amp_gamma: amp and gamma move linearly from `initial` at
\* initial_time to `future` at future_time
get_amp_gamma(pool_state, now) ==
    IF now < pool_state.future_time
    THEN LET total  == pool_state.future_time - pool_state.initial_time
             passed == now - pool_state.initial_time
             left   == total - passed
         IN [amp   |-> (pool_state.initial.amp * left + pool_state.future.amp * passed)
                           \div total,
             gamma |-> (pool_state.initial.gamma * left + pool_state.future.gamma * passed)
                           \div total]
    ELSE pool_state.future

\* half_float_pow: 0.5 ^ (elapsed / ma_half_time); block times of the model
\* are whole multiples of ma_half_time
half_float_pow(elapsed, ma_half_time) == ONE \div Pow2(elapsed \div ma_half_time)

\* the new price scale of a repeg: from scale towards the oracle price by
\* the share scale_delta / norm of the distance.  Decimal256 carries the
\* two products at 18 digits, far below the unit of this model, so they are
\* kept exact here and the quotient is rounded down once.
DampedScale(scale, oracle, norm, scale_delta) ==
    (scale * (norm - scale_delta) + scale_delta * oracle) \div norm

\* Faulty variant of OraclePrice: the oracle follows the last price at once.
OraclePrice_Spot(price_state, params, now) == price_state.last_price

\* the moving average of last_price with half-life ma_half_time; skipped
\* when no time has passed since last_price_update
OraclePrice(price_state, params, now) ==
    LET alpha == half_float_pow(now - price_state.last_price_update, params.ma_half_time)
    IN IF price_state.last_price_update < now
       THEN DMul(price_state.last_price, ONE - alpha) + DMul(price_state.oracle_price, alpha)
       ELSE price_state.oracle_price

\* PoolState::update_price.  cur_xs are internal balances after the
\* operation, cur_price the price of the operation.  Returns the new
\* PriceState, or ok = FALSE when the operation lost LP value.
update_price(pool_state, price_state, params, now, total_lp, cur_xs, cur_price) ==
    LET moved   == price_state.last_price_update < now
        oracle  == OraclePrice(price_state, params, now)
        scale   == price_state.price_scale
        cur_d   == calc_d(cur_xs)
        xcp     == get_xcp(cur_d, scale)
        tracked == price_state.xcp_profit_real # 0
        real0   == IF tracked THEN DDiv(xcp, total_lp) ELSE 0
        dropped == tracked /\ real0 < price_state.xcp_profit_real
                           /\ now >= pool_state.future_time
        profit  == IF tracked
                   THEN DDiv(DMul(price_state.xcp_profit, real0), price_state.xcp_profit_real)
                   ELSE price_state.xcp_profit
        real1   == IF tracked THEN real0 ELSE price_state.xcp_profit_real
        norm    == AbsDiff(DDiv(oracle, scale), ONE)
        scale_delta == Max(params.min_price_scale_delta, norm \div 5)
        wanted  == /\ norm >= scale_delta
                   /\ real1 - ONE > (profit - ONE) \div 2 + params.repeg_profit_threshold
        scale_new == IF wanted THEN DampedScale(scale, oracle, norm, scale_delta) ELSE scale
        xs_new  == <<cur_xs[1], DDiv(DMul(cur_xs[2], scale_new), scale)>>
        real_new == DDiv(get_xcp(calc_d(xs_new), scale_new), total_lp)
        repeg   == wanted /\ 2 * real_new > profit + ONE
        \* Decimal256 subtraction panics below zero
        underflow == norm >= scale_delta /\ (real1 < ONE \/ profit < ONE)
    IN [ok |-> ~dropped /\ ~underflow,
        repeg |-> repeg,
        real1 |-> real1,
        price_state |->
            [oracle_price |-> oracle,
             last_price |-> cur_price,
             price_scale |-> IF repeg THEN scale_new ELSE scale,
             last_price_update |-> IF moved THEN now ELSE price_state.last_price_update,
             xcp_profit |-> profit,
             xcp_profit_real |-> IF repeg THEN real_new ELSE real1]]

\* ------------------------------------------------------------------------
\* Guards of astroport_pcl_common::utils
\* ------------------------------------------------------------------------
DEFAULT_SLIPPAGE == 5
MAX_ALLOWED_SLIPPAGE == 500

\* assert_max_spread on integer amounts; belief_price and max_spread are
\* decimals or None.  Returns "ok" or the error.
assert_max_spread(belief_price, max_spread, offer_amount, return_amount, spread_amount) ==
    LET spread == IF max_spread = NONE THEN DEFAULT_SLIPPAGE ELSE max_spread
    IN IF spread > MAX_ALLOWED_SLIPPAGE THEN "AllowedSpreadAssertion"
       ELSE IF belief_price # NONE
       THEN IF belief_price = 0 THEN "BeliefPriceZero"
            ELSE LET expected_return == DMul(offer_amount, DDiv(ONE, belief_price))
                     lost == SatSub(expected_return, return_amount)
                 IN IF return_amount < expected_return
                       /\ FromRatio(lost, expected_return) > spread
                    THEN "MaxSpreadAssertion" ELSE "ok"
       ELSE IF return_amount + spread_amount = 0 THEN "DivideByZero"
       ELSE IF FromRatio(spread_amount, return_amount + spread_amount) > spread
            THEN "MaxSpreadAssertion" ELSE "ok"

\* assert_slippage_tolerance: the value of the deposit against the value of
\* the LP tokens received for it
assert_slippage_tolerance(deposits, share, price_state, slippage_tolerance) ==
    LET tolerance == IF slippage_tolerance = NONE THEN DEFAULT_SLIPPAGE
                     ELSE slippage_tolerance
        deposit_value == deposits[1] + DMul(deposits[2], price_state.price_scale)
        lp_value == DMul(DMul(share, 2 * DSqrt(price_state.price_scale)),
                         price_state.xcp_profit_real)
        slippage == DDiv(SatSub(deposit_value, lp_value), deposit_value)
    IN IF tolerance > MAX_ALLOWED_SLIPPAGE THEN "AllowedSpreadAssertion"
       ELSE IF slippage > tolerance THEN "MaxSpreadAssertion" ELSE "ok"

\* before_swap_check
before_swap_check(pools, offer_amount) ==
    IF offer_amount = 0 THEN "InvalidZeroAmount"
    ELSE IF pools[1] = 0 \/ pools[2] = 0 THEN "OneOfThePoolsIsEmpty"
    ELSE "ok"

\* ------------------------------------------------------------------------
\* State
\* ------------------------------------------------------------------------
\* Option<Decimal> and Option<Uint128> without a value

VARIABLES
    store,      \* the contract's storage: CONFIG, SWAP_PARAMS, POOL_ID,
                \* the observation ring and precommit slot, BALANCES
    bank,       \* bank balances of the pair contract for the two pool assets
    lp_supply,  \* total supply of the LP token denom
    lp_held,    \* LP tokens the pair contract holds itself
    factory,    \* what the factory answers: registration, fee info, owner
    now,        \* block time, in units of ma_half_time
    lastCall,   \* the last entry point executed and its result
    nops,       \* number of calls executed
    nticks,     \* number of blocks passed
    maker       \* the maker contract's storage: the owner of its CONFIG and
                \* OWNERSHIP_PROPOSAL

vars == <<store, bank, lp_supply, lp_held, factory, now, lastCall, nops, nticks, maker>>

\* OWNERSHIP_PROPOSAL without a proposal
NoProposal == [set |-> FALSE, owner |-> "", ttl |-> 0]

NoSwapParams == [set |-> FALSE, belief_price |-> NONE, max_spread |-> NONE,
                 sender |-> "", to |-> ""]
NoPrecommit == [set |-> FALSE, base_amount |-> 0, quote_amount |-> 0, precommit_ts |-> 0]
NoObservation == [set |-> FALSE, ts |-> 0, base_amount |-> 0, quote_amount |-> 0]

\* ------------------------------------------------------------------------
\* The factory's registry of pairs (factory/src/state.rs)
\* ------------------------------------------------------------------------
\* Denoms are byte strings; AssetInfo::as_bytes of a native asset is its denom.
UOSMO == <<1>>
UUSD  == <<2>>
UION  == <<1, 2>>

\* the byte order of two denoms
RECURSIVE BytesLeq(_, _)
BytesLeq(a, b) ==
    IF a = <<>> THEN TRUE
    ELSE IF b = <<>> THEN FALSE
    ELSE IF a[1] # b[1] THEN a[1] < b[1]
    ELSE BytesLeq(Tail(a), Tail(b))

\* Itertools::sorted, by insertion
RECURSIVE InsertSorted(_, _)
InsertSorted(x, seq) ==
    IF seq = <<>> THEN <<x>>
    ELSE IF BytesLeq(x, Head(seq)) THEN <<x>> \o seq
    ELSE <<Head(seq)>> \o InsertSorted(x, Tail(seq))

RECURSIVE sorted(_)
sorted(seq) == IF seq = <<>> THEN <<>> ELSE InsertSorted(Head(seq), sorted(Tail(seq)))

\* Iterator::flatten: the byte strings one after the other
RECURSIVE flatten(_)
flatten(seq) == IF seq = <<>> THEN <<>> ELSE Head(seq) \o flatten(Tail(seq))

\* Faulty variant of pair_key: the assets are taken in the order given.
pair_key_AsGiven(asset_infos) == flatten(asset_infos)

\* pair_key: the sorted byte strings of the assets, concatenated
pair_key(asset_infos) == flatten(sorted(asset_infos))

\* PAIRS, a map from pair keys to pair addresses, as the set of its entries
PairsHas(pairs, key) == \E p \in pairs : p.key = key
PairsSave(pairs, key, addr) == { p \in pairs : p.key # key } \cup { [key |-> key, addr |-> addr] }
PairsRemove(pairs, key) == { p \in pairs : p.key # key }

\* the assets of the pair of this model
PairAssetInfos == <<UOSMO, UUSD>>

\* PAIRS with this pair registered, or empty
RegisteredPairs(reg) ==
    IF reg THEN PairsSave({}, pair_key(PairAssetInfos), "pair0000") ELSE {}

\* TMP_PAIR_INFO before any CreatePair
NoTmpPairInfo == [set |-> FALSE, pair_key |-> <<>>]

\* PAIR_CONFIGS after the factory's instantiation: the concentrated pair type
InitialPairConfigs == { [pair_type |-> "concentrated", is_disabled |-> FALSE] }

\* check_pair_registered: PAIRS of the factory has the key of the assets
check_pair_registered(fac, asset_infos) == PairsHas(fac.pairs, pair_key(asset_infos))

\* Faulty variant of PairIsRegistered: the factory is not asked.
PairIsRegistered_Unchecked(fac) == TRUE

\* provide_liquidity: check_pair_registered(deps.querier, &config.factory_addr,
\* &config.pair_info.asset_infos)?
PairIsRegistered(fac) == check_pair_registered(fac, PairAssetInfos)

\* instantiate (contract.rs): the state a new pair starts from
InitialConfig(price_scale, track) ==
    [pool_params |->
        [mid_fee |-> 20, out_fee |-> 50, fee_gamma |-> 500,
         repeg_profit_threshold |-> 2, min_price_scale_delta |-> 10,
         ma_half_time |-> 1],
     pool_state |->
        [initial |-> [amp |-> 0, gamma |-> 0], future |-> [amp |-> 40, gamma |-> 100],
         initial_time |-> 0, future_time |-> 0],
     price_state |->
        [oracle_price |-> price_scale, last_price |-> price_scale,
         price_scale |-> price_scale, last_price_update |-> 0,
         xcp_profit |-> 0, xcp_profit_real |-> 0],
     owner |-> "",
     track_asset_balances |-> track,
     liquidity_token |-> "factory/pair0000/astroport/share"]

InitialStore(price_scale, track) ==
    [config |-> InitialConfig(price_scale, track),
     swap_params |-> NoSwapParams,
     pool_id |-> 1,
     precommit |-> NoPrecommit,
     ring |-> [i \in 0 .. OBSERVATIONS_SIZE - 1 |-> NoObservation],
     head |-> 0,
     balances |-> IF track THEN <<0, 0>> ELSE <<NONE, NONE>>,
     proposal |-> NoProposal]

\* ------------------------------------------------------------------------
\* Results of an entry point
\* ------------------------------------------------------------------------
\* What a call hands back besides its storage: the bank and token-factory
\* messages of its Response and the figures it computed.
NoOut ==
    [n_assets |-> 0, deposits |-> <<0, 0>>, first |-> FALSE, xcp |-> 0,
     minted |-> 0, minted_self |-> 0,
     lp_amount |-> 0, custom |-> FALSE, burned |-> 0, refund |-> <<0, 0>>,
     offer_ind |-> 0, offer_amount |-> 0, paid_in |-> 0,
     dy |-> 0, maker_fee |-> 0, to_receiver |-> 0, to_fee |-> 0,
     price_updated |-> FALSE, repeg |-> FALSE, real1 |-> 0,
     read_after |-> 0, config_saves |-> 0,
     next_collect_ts |-> 0, messages |-> <<>>]

\* an Err(..) return after `writes` storage writes were issued
Fail(err, writes, st, out) ==
    [ok |-> FALSE, err |-> err, writes |-> writes, st |-> st, out |-> out]
\* an Ok(Response) return
Done(writes, st, out) ==
    [ok |-> TRUE, err |-> "", writes |-> writes, st |-> st, out |-> out]

\* ------------------------------------------------------------------------
\* ExecuteMsg::ProvideLiquidity (contract.rs, provide_liquidity)
\* ------------------------------------------------------------------------
\* Faulty variant of MintedToPair: the first Provide mints nothing to the pair.
MintedToPair_Nothing(first) == 0

\* provide_liquidity: MsgMint of MINIMUM_LIQUIDITY_AMOUNT with
\* mint_to_address: env.contract.address, in the empty-pool branch
MintedToPair(first) == IF first THEN MINIMUM_LIQUIDITY_AMOUNT ELSE 0

\* Faulty variant of InitialProvideOneSided: && in place of ||.
InitialProvideOneSided_BothZero(total_share, deposits) ==
    total_share = 0 /\ (deposits[1] = 0 /\ deposits[2] = 0)

\* "Initial provide can not be one-sided"
InitialProvideOneSided(total_share, deposits) ==
    total_share = 0 /\ (deposits[1] = 0 \/ deposits[2] = 0)

\* Faulty variant of DivergesFromBalancedShare: || in place of &&.
DivergesFromBalancedShare_Either(assets_diff) ==
    assets_diff[1] >= MIN_TRADE_SIZE \/ assets_diff[2] >= MIN_TRADE_SIZE

\* provide_liquidity: assets_diff[0] >= MIN_TRADE_SIZE &&
\* assets_diff[1] >= MIN_TRADE_SIZE
DivergesFromBalancedShare(assets_diff) ==
    assets_diff[1] >= MIN_TRADE_SIZE /\ assets_diff[2] >= MIN_TRADE_SIZE

\* update_price(..)?: the error of the price update is the error of the call
PriceUpdateFails(moves, upd) == moves /\ ~upd.ok

\* the first provide starts xcp_profit_real and xcp_profit at one
InitialProfit(first, price_state) ==
    IF first
    THEN [price_state EXCEPT !.xcp_profit_real = ONE, !.xcp_profit = ONE]
    ELSE price_state

\* provide_liquidity, from the mint on: what the call stores and mints.
\* price_state1 is the PriceState before the price update, upd the result
\* of update_price.
provide_liquidity_commit(st, bnk, msg, first, xcp, share, price_state1, moves, upd) ==
    LET cfg   == st.config
        pools == <<ToDecimal(bnk[1], ASSET_PRECISION), ToDecimal(bnk[2], ASSET_PRECISION)>>
        deposits == <<ToDecimal(msg.deposits[1], ASSET_PRECISION),
                      ToDecimal(msg.deposits[2], ASSET_PRECISION)>>
        share_uint128 == ToUint(share, LP_TOKEN_PRECISION)
        tracked == cfg.track_asset_balances
        st2 == [st EXCEPT
                  !.config.price_state = IF moves THEN upd.price_state ELSE price_state1,
                  !.balances = IF tracked
                               THEN <<ToUint(pools[1] + deposits[1], ASSET_PRECISION),
                                      ToUint(pools[2] + deposits[2], ASSET_PRECISION)>>
                               ELSE @]
        out == [NoOut EXCEPT !.n_assets = msg.n, !.deposits = msg.deposits, !.first = first]
    IN IF PriceUpdateFails(moves, upd) THEN Fail("XcpProfitDropped", 0, st, out)
       ELSE Done(IF tracked THEN 3 ELSE 1, st2,
                 [out EXCEPT
                    !.config_saves = 1,
                    !.xcp = IF first THEN xcp ELSE 0,
                    !.real1 = IF moves THEN upd.real1 ELSE 0,
                    !.minted = share_uint128,
                    !.minted_self = MintedToPair(first),
                    !.price_updated = moves,
                    !.repeg = moves /\ upd.repeg])

\* provide_liquidity, from the share to the price update: a deposit that
\* diverges from the balanced share by MIN_TRADE_SIZE on both sides is held
\* to the slippage tolerance and moves the price
provide_liquidity_priced(st, bnk, supply, t, msg, first, xcp, new_xp, share) ==
    LET cfg   == st.config
        ps    == cfg.price_state.price_scale
        deposits == <<ToDecimal(msg.deposits[1], ASSET_PRECISION),
                      ToDecimal(msg.deposits[2], ASSET_PRECISION)>>
        total_share == ToDecimal(supply, LP_TOKEN_PRECISION)
        price_state1 == InitialProfit(first, cfg.price_state)
        share_ratio == DDiv(share, total_share + share)
        balanced_share == <<DMul(new_xp[1], share_ratio),
                            DDiv(DMul(new_xp[2], share_ratio), ps)>>
        assets_diff == <<AbsDiff(deposits[1], balanced_share[1]),
                         AbsDiff(deposits[2], balanced_share[2])>>
        moves  == DivergesFromBalancedShare(assets_diff)
        slip   == assert_slippage_tolerance(deposits, share, price_state1, msg.slippage_tolerance)
        out == [NoOut EXCEPT !.n_assets = msg.n, !.deposits = msg.deposits, !.first = first]
    IN IF total_share + share = 0 THEN Fail("DivideByZero", 0, st, out)
       ELSE IF moves /\ slip # "ok" THEN Fail(slip, 0, st, out)
       ELSE provide_liquidity_commit(st, bnk, msg, first, xcp, share, price_state1, moves,
                update_price(cfg.pool_state, price_state1, cfg.pool_params, t,
                             total_share + share, new_xp,
                             DDiv(assets_diff[1], assets_diff[2])))

\* provide_liquidity, the share of the deposit: xcp less the locked minimum
\* for the first provide, the growth of D less the provide fee afterwards
provide_liquidity_share(st, bnk, supply, t, msg, new_xp, new_d) ==
    LET cfg   == st.config
        ps    == cfg.price_state.price_scale
        pools == <<ToDecimal(bnk[1], ASSET_PRECISION), ToDecimal(bnk[2], ASSET_PRECISION)>>
        deposits == <<ToDecimal(msg.deposits[1], ASSET_PRECISION),
                      ToDecimal(msg.deposits[2], ASSET_PRECISION)>>
        total_share == ToDecimal(supply, LP_TOKEN_PRECISION)
        first  == total_share = 0
        xcp    == get_xcp(new_d, ps)
        mint_amount == SatSub(xcp, ToDecimal(MINIMUM_LIQUIDITY_AMOUNT, LP_TOKEN_PRECISION))
        old_d  == calc_d(<<pools[1], DMul(pools[2], ps)>>)
        ideposits == <<deposits[1], DMul(deposits[2], ps)>>
        out == [NoOut EXCEPT !.n_assets = msg.n, !.deposits = msg.deposits, !.first = first]
    IN IF first /\ mint_amount = 0
            THEN Fail("MinimumLiquidityAmountError", 0, st, out)
       ELSE IF ~first /\ (old_d = 0 \/ ideposits[1] + ideposits[2] = 0)
            THEN Fail("DivideByZero", 0, st, out)
       ELSE provide_liquidity_priced(st, bnk, supply, t, msg, first, xcp, new_xp,
                IF first THEN mint_amount
                ELSE DMul(SatSub(DDiv(DMul(total_share, new_d), old_d), total_share),
                          ONE - calc_provide_fee(ideposits, new_xp, cfg.pool_params)))

\* msg.n is the number of assets named, msg.deposits their amounts by pool
\* index (an omitted asset has amount 0), bnk the pool balances before the
\* attached funds arrived.
provide_liquidity(st, bnk, supply, fac, t, msg) ==
    LET ps    == st.config.price_state.price_scale
        pools == <<ToDecimal(bnk[1], ASSET_PRECISION), ToDecimal(bnk[2], ASSET_PRECISION)>>
        deposits == <<ToDecimal(msg.deposits[1], ASSET_PRECISION),
                      ToDecimal(msg.deposits[2], ASSET_PRECISION)>>
        total_share == ToDecimal(supply, LP_TOKEN_PRECISION)
        new_xp == <<pools[1] + deposits[1], DMul(pools[2] + deposits[2], ps)>>
        out == [NoOut EXCEPT !.n_assets = msg.n, !.deposits = msg.deposits,
                             !.first = (total_share = 0)]
    IN IF ~PairIsRegistered(fac)
       THEN Fail("PairIsNotRegistered", 0, st, out)
       ELSE IF msg.n = 0 THEN Fail("NothingToProvide", 0, st, out)
       ELSE IF msg.n > 2 THEN Fail("InvalidNumberOfAssets", 0, st, out)
       ELSE IF InitialProvideOneSided(total_share, deposits)
            THEN Fail("InvalidZeroAmount", 0, st, out)
       ELSE provide_liquidity_share(st, bnk, supply, t, msg, new_xp, calc_d(new_xp))

\* ------------------------------------------------------------------------
\* ExecuteMsg::WithdrawLiquidity (contract.rs, withdraw_liquidity)
\* ------------------------------------------------------------------------
\* Faulty variant of RefundableShare: the whole amount is paid for.
RefundableShare_Whole(amount) == amount

\* the share a balanced withdrawal is paid for: amount.saturating_sub(1)
RefundableShare(amount) == SatSub(amount, 1)

\* Faulty variant of ImbalancedWithdraw: the asset list is not looked at.
ImbalancedWithdraw_Ignored(msg) == FALSE

\* a non-empty asset list asks for an imbalanced withdrawal
ImbalancedWithdraw(msg) == msg.custom

\* Faulty variant of WithdrawnConfig: the withdrawal also stamps the time
\* of the last price update.
WithdrawnConfig_Stamped(st, t, xcp_profit_real) == [st EXCEPT !.config.price_state.xcp_profit_real = xcp_profit_real, !.config.price_state.last_price_update = t]

\* what withdraw_liquidity changes in the configuration it loaded before
\* CONFIG.save: price_state.xcp_profit_real, nothing else
WithdrawnConfig(st, t, xcp_profit_real) == [st EXCEPT !.config.price_state.xcp_profit_real = xcp_profit_real]

\* msg.amount is the LP amount attached, msg.custom says that the asset
\* list of the message is not empty.
withdraw_liquidity(st, bnk, supply, t, msg) ==
    LET cfg   == st.config
        ps    == cfg.price_state.price_scale
        amount == msg.amount
        pools == <<ToDecimal(bnk[1], ASSET_PRECISION), ToDecimal(bnk[2], ASSET_PRECISION)>>
        refund == get_share_in_assets(pools, RefundableShare(amount), supply)
        xs    == <<pools[1] - refund[1], DMul(pools[2] - refund[2], ps)>>
        d     == calc_d(xs)
        xcp_profit_real == DDiv(get_xcp(d, ps), ToDecimal(supply - amount, LP_TOKEN_PRECISION))
        refund_assets == <<ToUint(refund[1], ASSET_PRECISION), ToUint(refund[2], ASSET_PRECISION)>>
        tracked == cfg.track_asset_balances
        st2 == [WithdrawnConfig(st, t, xcp_profit_real) EXCEPT
                  !.balances = IF tracked
                               THEN <<ToUint(pools[1], ASSET_PRECISION) - refund_assets[1],
                                      ToUint(pools[2], ASSET_PRECISION) - refund_assets[2]>>
                               ELSE @]
        out == [NoOut EXCEPT !.lp_amount = amount, !.custom = msg.custom]
    IN IF amount = 0 THEN Fail("PaymentError", 0, st, out)
       ELSE IF ImbalancedWithdraw(msg) THEN Fail("ImbalancedWithdrawDisabled", 0, st, out)
       ELSE IF supply = amount THEN Fail("DivideByZero", 0, st, out)
       ELSE Done(IF tracked THEN 3 ELSE 1, st2,
                 [out EXCEPT !.burned = amount, !.refund = refund_assets,
                             !.config_saves = 1])

\* ------------------------------------------------------------------------
\* Observations (utils::accumulate_swap_sizes, PrecommitObservation::save)
\* ------------------------------------------------------------------------
\* accumulate_swap_sizes: the pending observation of an earlier block moves
\* into the ring at the cursor and the pending slot resets
accumulate_swap_sizes(st, t) ==
    IF st.precommit.set /\ st.precommit.precommit_ts < t
    THEN [st EXCEPT
            !.ring[st.head] = [set |-> TRUE, ts |-> st.precommit.precommit_ts,
                               base_amount |-> st.precommit.base_amount,
                               quote_amount |-> st.precommit.quote_amount],
            !.head = (st.head + 1) % OBSERVATIONS_SIZE,
            !.precommit = NoPrecommit]
    ELSE st

\* PrecommitObservation::save: trades of one block add up in the slot
PrecommitSave(st, t, base_amount, quote_amount) ==
    IF st.precommit.set /\ st.precommit.precommit_ts = t
    THEN [st EXCEPT !.precommit.base_amount = @ + base_amount,
                    !.precommit.quote_amount = @ + quote_amount]
    ELSE [st EXCEPT !.precommit = [set |-> TRUE, base_amount |-> base_amount,
                                   quote_amount |-> quote_amount, precommit_ts |-> t]]

\* Faulty variant of StoreObservations: the swap writes its own trade into
\* the ring at the cursor.
StoreObservations_IntoRing(st, t, observed, offer_ind, offer_amount, return_amount) ==
    IF ~observed THEN st
    ELSE [st EXCEPT
            !.ring[st.head] = [set |-> TRUE, ts |-> t,
                               base_amount |-> IF offer_ind = 1 THEN offer_amount
                                               ELSE return_amount,
                               quote_amount |-> IF offer_ind = 1 THEN return_amount
                                                ELSE offer_amount],
            !.head = (st.head + 1) % OBSERVATIONS_SIZE]

\* What a swap does to the observations: the pending observation of an
\* earlier block is stored first; then the trade, if both its sides reach
\* MIN_TRADE_SIZE, goes into the pending slot as (base, quote) amounts.
StoreObservations(st, t, observed, offer_ind, offer_amount, return_amount) ==
    LET st1 == accumulate_swap_sizes(st, t)
    IN IF ~observed THEN st1
       ELSE IF offer_ind = 1 THEN PrecommitSave(st1, t, offer_amount, return_amount)
       ELSE PrecommitSave(st1, t, return_amount, offer_amount)

\* ------------------------------------------------------------------------
\* Swaps (contract.rs internal_swap, execute_swap; sudo.rs)
\* ------------------------------------------------------------------------
\* Faulty variant of MakerFeeShare: the fee address is not looked at.
MakerFeeShare_AnyFactory(fac) == fac.maker_fee_rate

\* swap_result.dy.to_uint(ask_asset_prec): what the receiver is sent
ReturnAmount(swap_result) == ToUint(swap_result.dy, ASSET_PRECISION)

\* the maker's share of the fee, as the factory reports it
MakerFeeShare(fac) == IF fac.fee_address THEN fac.maker_fee_rate ELSE 0

\* Faulty variant of AskSnapshot: the maker fee is not taken off.
AskSnapshot_FeeKept(pool_amount, return_amount, maker_fee) == pool_amount - return_amount

\* BALANCES of the ask asset after a swap: pools[ask_ind].amount -
\* return_amount - maker_fee (internal_swap, swap_exact_amount_out)
AskSnapshot(pool_amount, return_amount, maker_fee) == pool_amount - return_amount - maker_fee

\* internal_swap, from the observations on: what the call stores and sends.
\* swap_result is the result of compute_swap, upd that of update_price.
internal_swap_commit(st, bnk, fac, t, offer_ind, offer_amount, w0, swap_result, moves, upd) ==
    LET cfg   == st.config
        ask_ind == 3 - offer_ind
        offer_dec == ToDecimal(offer_amount, ASSET_PRECISION)
        pools == <<ToDecimal(bnk[1], ASSET_PRECISION), ToDecimal(bnk[2], ASSET_PRECISION)>>
        return_amount == ReturnAmount(swap_result)
        maker_fee == IF fac.fee_address THEN ToUint(swap_result.maker_fee, ASSET_PRECISION) ELSE 0
        observed == offer_dec >= MIN_TRADE_SIZE /\ swap_result.dy >= MIN_TRADE_SIZE
        st1   == accumulate_swap_sizes(st, t)
        st2   == StoreObservations(st, t, observed, offer_ind, offer_amount, return_amount)
        tracked == cfg.track_asset_balances
        st3   == [st2 EXCEPT
                    !.config.price_state = IF moves THEN upd.price_state ELSE @,
                    !.balances = IF tracked
                                 THEN [@ EXCEPT
                                        ![offer_ind] = ToUint(pools[offer_ind] + offer_dec,
                                                              ASSET_PRECISION),
                                        ![ask_ind] = AskSnapshot(ToUint(pools[ask_ind], ASSET_PRECISION),
                                                                 return_amount, maker_fee)]
                                 ELSE @]
        out   == [NoOut EXCEPT !.offer_ind = offer_ind, !.offer_amount = offer_amount,
                               !.read_after = w0]
        writes == w0 + (IF st1 # st THEN 2 ELSE 0) + (IF observed THEN 1 ELSE 0)
                     + (IF tracked THEN 3 ELSE 1)
    IN IF PriceUpdateFails(moves, upd) THEN Fail("XcpProfitDropped", w0, st, out)
       ELSE Done(writes, st3,
                 [out EXCEPT !.paid_in = offer_amount,
                             !.config_saves = 1,
                             !.dy = swap_result.dy,
                             !.maker_fee = swap_result.maker_fee,
                             !.to_receiver = return_amount,
                             !.to_fee = maker_fee,
                             !.price_updated = moves,
                             !.repeg = moves /\ upd.repeg,
                             !.real1 = IF moves THEN upd.real1 ELSE 0])

\* Faulty variant of SpreadGuard: the swap goes on whatever its spread.
SpreadGuard_Off(belief_price, max_spread, offer_amount, return_amount, spread_amount) == "ok"

\* internal_swap: assert_max_spread(belief_price, max_spread,
\* offer_asset.amount, return_amount, spread_amount)?
SpreadGuard(belief_price, max_spread, offer_amount, return_amount, spread_amount) ==
    assert_max_spread(belief_price, max_spread, offer_amount, return_amount, spread_amount)

\* internal_swap, from the result of compute_swap to the price update: the
\* spread guard, and the price moves only for trades of MIN_TRADE_SIZE
internal_swap_priced(st, bnk, supply, fac, t, offer_ind, offer_amount, belief_price, max_spread, w0, swap_result) ==
    LET cfg   == st.config
        ps    == cfg.price_state.price_scale
        ask_ind == 3 - offer_ind
        offer_dec == ToDecimal(offer_amount, ASSET_PRECISION)
        pools == <<ToDecimal(bnk[1], ASSET_PRECISION), ToDecimal(bnk[2], ASSET_PRECISION)>>
        xs    == [pools EXCEPT ![offer_ind] = @ + offer_dec,
                               ![ask_ind] = @ - (swap_result.dy + swap_result.maker_fee)]
        spread == SpreadGuard(belief_price, max_spread, offer_amount,
                              ReturnAmount(swap_result),
                              ToUint(swap_result.spread_fee, ASSET_PRECISION))
        moves == /\ swap_result.dy + swap_result.maker_fee + swap_result.share_fee >= MIN_TRADE_SIZE
                 /\ offer_dec >= MIN_TRADE_SIZE
        out   == [NoOut EXCEPT !.offer_ind = offer_ind, !.offer_amount = offer_amount,
                               !.read_after = w0]
    IN IF ~swap_result.ok THEN Fail("Overflow", w0, st, out)
       ELSE IF spread # "ok" THEN Fail(spread, w0, st, out)
       ELSE internal_swap_commit(st, bnk, fac, t, offer_ind, offer_amount, w0, swap_result, moves,
                update_price(cfg.pool_state, cfg.price_state, cfg.pool_params, t,
                             ToDecimal(supply, LP_TOKEN_PRECISION),
                             <<xs[1], DMul(xs[2], ps)>>,
                             calc_last_price(swap_result, offer_dec, offer_ind)))

\* internal_swap.  bnk are the pool balances before the offer arrived, w0
\* the storage writes the caller has already issued.
internal_swap(st, bnk, supply, fac, t, offer_ind, offer_amount, belief_price, max_spread, w0) ==
    LET offer_dec == ToDecimal(offer_amount, ASSET_PRECISION)
        pools == <<ToDecimal(bnk[1], ASSET_PRECISION), ToDecimal(bnk[2], ASSET_PRECISION)>>
        check == before_swap_check(pools, offer_dec)
        out   == [NoOut EXCEPT !.offer_ind = offer_ind, !.offer_amount = offer_amount,
                               !.read_after = w0]
    IN IF check # "ok" THEN Fail(check, w0, st, out)
       ELSE internal_swap_priced(st, bnk, supply, fac, t, offer_ind, offer_amount,
                belief_price, max_spread, w0,
                compute_swap(pools, offer_dec, 3 - offer_ind, st.config, MakerFeeShare(fac)))

\* Faulty variant of TakeSwapParams: the stored parameters stay in place.
TakeSwapParams_Kept(st, w0) == [st |-> st, writes |-> w0]

\* SWAP_PARAMS.remove when SWAP_PARAMS.may_load finds parameters (sudo.rs)
TakeSwapParams(st, w0) ==
    IF st.swap_params.set
    THEN [st |-> [st EXCEPT !.swap_params = NoSwapParams], writes |-> w0 + 1]
    ELSE [st |-> st, writes |-> w0]

\* sudo, SudoMessage::SwapExactAmountIn: parameters left by execute_swap
\* replace those of the message and are removed
sudo_swap_exact_amount_in(st, bnk, supply, fac, t, offer_ind, amount, token_out_min_amount, w0) ==
    LET has == st.swap_params.set
        belief_price == IF has THEN st.swap_params.belief_price
                        ELSE FromRatio(amount, token_out_min_amount)
        max_spread == IF has THEN st.swap_params.max_spread ELSE 0
        taken == TakeSwapParams(st, w0)
        st1 == taken.st
        w1  == taken.writes
    IN IF token_out_min_amount = 0
       THEN Fail("DivideByZero", w0, st,
                 [NoOut EXCEPT !.offer_ind = offer_ind, !.offer_amount = amount])
       ELSE internal_swap(st1, bnk, supply, fac, t, offer_ind, amount,
                          belief_price, max_spread, w1)

\* execute_swap followed by the MsgSwapExactAmountIn it dispatches, which
\* the DEX module turns into sudo SwapExactAmountIn within the same
\* transaction.  msg.offer_ind = 0 stands for an asset that is not in the pair.
execute_swap(st, bnk, supply, fac, t, msg) ==
    LET st1 == [st EXCEPT !.swap_params =
                   [set |-> TRUE, belief_price |-> msg.belief_price,
                    max_spread |-> msg.max_spread, sender |-> "user", to |-> ""]]
        out == [NoOut EXCEPT !.offer_ind = msg.offer_ind, !.offer_amount = msg.amount]
    IN IF msg.offer_ind = 0 THEN Fail("InvalidAsset", 0, st, out)
       ELSE IF st.pool_id = NONE THEN Fail("NotFound", 1, st, out)
       ELSE sudo_swap_exact_amount_in(st1, bnk, supply, fac, t, msg.offer_ind,
                                      msg.amount, 1, 1)

\* swap_exact_amount_out, from the observations on: what the call stores
\* and sends.  offer_amount is what the swap needs of token_in_max_amount.
swap_exact_amount_out_commit(st, bnk, fac, t, offer_ind, token_in_max_amount, offer_amount, swap_result, upd) ==
    LET cfg   == st.config
        ask_ind == 3 - offer_ind
        offer_dec == ToDecimal(offer_amount, ASSET_PRECISION)
        return_amount == ReturnAmount(swap_result)
        maker_fee == IF fac.fee_address THEN ToUint(swap_result.maker_fee, ASSET_PRECISION) ELSE 0
        observed == offer_dec >= MIN_TRADE_SIZE /\ swap_result.dy >= MIN_TRADE_SIZE
        st1   == accumulate_swap_sizes(st, t)
        st2   == StoreObservations(st, t, observed, offer_ind, offer_amount, return_amount)
        tracked == cfg.track_asset_balances
        st3   == [st2 EXCEPT
                    !.config.price_state = upd.price_state,
                    !.balances = IF tracked
                                 THEN [@ EXCEPT
                                        ![offer_ind] = bnk[offer_ind] + offer_amount,
                                        ![ask_ind] = AskSnapshot(bnk[ask_ind], return_amount,
                                                                 maker_fee)]
                                 ELSE @]
        out   == [NoOut EXCEPT !.offer_ind = offer_ind, !.offer_amount = token_in_max_amount]
        writes == (IF st1 # st THEN 2 ELSE 0) + (IF observed THEN 1 ELSE 0)
                  + (IF tracked THEN 3 ELSE 1)
    IN IF PriceUpdateFails(TRUE, upd) THEN Fail("XcpProfitDropped", 0, st, out)
       ELSE Done(writes, st3,
                 [out EXCEPT !.paid_in = offer_amount,
                             !.config_saves = 1,
                             !.dy = swap_result.dy,
                             !.maker_fee = swap_result.maker_fee,
                             !.to_receiver = return_amount,
                             !.to_fee = maker_fee,
                             !.price_updated = TRUE,
                             !.repeg = upd.repeg,
                             !.real1 = upd.real1])

\* swap_exact_amount_out, from the result of compute_swap to the price
\* update, which no trade size guards
swap_exact_amount_out_priced(st, bnk, supply, fac, t, offer_ind, token_in_max_amount, offer_amount, swap_result) ==
    LET cfg   == st.config
        ps    == cfg.price_state.price_scale
        ask_ind == 3 - offer_ind
        offer_dec == ToDecimal(offer_amount, ASSET_PRECISION)
        xs0   == <<ToDecimal(bnk[1], ASSET_PRECISION), ToDecimal(bnk[2], ASSET_PRECISION)>>
        xs    == [xs0 EXCEPT ![offer_ind] = @ + offer_dec,
                             ![ask_ind] = @ - (swap_result.dy + swap_result.maker_fee)]
        priced == IF offer_ind = 1
                  THEN swap_result.dy + swap_result.maker_fee + swap_result.share_fee # 0
                  ELSE offer_dec # 0
        out   == [NoOut EXCEPT !.offer_ind = offer_ind, !.offer_amount = token_in_max_amount]
    IN IF ~swap_result.ok THEN Fail("Overflow", 0, st, out)
       ELSE IF ~priced THEN Fail("DivideByZero", 0, st, out)
       ELSE swap_exact_amount_out_commit(st, bnk, fac, t, offer_ind, token_in_max_amount,
                offer_amount, swap_result,
                update_price(cfg.pool_state, cfg.price_state, cfg.pool_params, t,
                             ToDecimal(supply, LP_TOKEN_PRECISION),
                             <<xs[1], DMul(xs[2], ps)>>,
                             calc_last_price(swap_result, offer_dec, offer_ind)))

\* Faulty variant of EnoughTokens: whatever the swap needs is taken.
EnoughTokens_Always(offer_amount, token_in_max_amount) == TRUE

\* swap_exact_amount_out: ensure!(offer_amount <= token_in_max_amount, ..)
EnoughTokens(offer_amount, token_in_max_amount) == offer_amount <= token_in_max_amount

\* swap_exact_amount_out, from the result of compute_offer_amount to
\* compute_swap: the swap may not need more than token_in_max_amount
swap_exact_amount_out_offer(st, bnk, supply, fac, t, offer_ind, token_in_max_amount, need) ==
    LET offer_amount == ToUint(need.offer_amount, ASSET_PRECISION)
        xs0   == <<ToDecimal(bnk[1], ASSET_PRECISION), ToDecimal(bnk[2], ASSET_PRECISION)>>
        out   == [NoOut EXCEPT !.offer_ind = offer_ind, !.offer_amount = token_in_max_amount]
    IN IF ~need.ok THEN Fail("Overflow", 0, st, out)
       ELSE IF ~EnoughTokens(offer_amount, token_in_max_amount)
       THEN Fail("NotEnoughTokens", 0, st, out)
       ELSE swap_exact_amount_out_priced(st, bnk, supply, fac, t, offer_ind,
                token_in_max_amount, offer_amount,
                compute_swap(xs0, ToDecimal(offer_amount, ASSET_PRECISION), 3 - offer_ind,
                             st.config, MakerFeeShare(fac)))

\* sudo.rs, swap_exact_amount_out.  bnk are the pool balances before
\* token_in_max_amount arrived; what the swap does not need of it goes back
\* to the sender.
swap_exact_amount_out(st, bnk, supply, fac, t, offer_ind, token_in_max_amount, ask_ind, token_out) ==
    LET xs0   == <<ToDecimal(bnk[1], ASSET_PRECISION), ToDecimal(bnk[2], ASSET_PRECISION)>>
        out   == [NoOut EXCEPT !.offer_ind = offer_ind, !.offer_amount = token_in_max_amount]
    IN IF offer_ind = ask_ind THEN Fail("InvalidSwap", 0, st, out)
       ELSE IF xs0[1] = 0 \/ xs0[2] = 0 THEN Fail("Overflow", 0, st, out)
       ELSE swap_exact_amount_out_offer(st, bnk, supply, fac, t, offer_ind,
                token_in_max_amount,
                compute_offer_amount(xs0, ToDecimal(token_out, ASSET_PRECISION), ask_ind,
                                     st.config))

\* ------------------------------------------------------------------------
\* ExecuteMsg::UpdateConfig (contract.rs, update_config)
\* ------------------------------------------------------------------------
MIN_AMP_CHANGING_TIME == 1
\* amp in units of 1, gamma in units of 0.000001
AMP_MIN == 1
AMP_MAX == 100
GAMMA_MIN == 1
GAMMA_MAX == 20000
MAX_CHANGE == 10

\* PoolParams::update_params, for a message that names mid_fee alone
update_params(pool_params, mid_fee) == [pool_params EXCEPT !.mid_fee = mid_fee]

\* a parameter may grow or shrink by a factor of MAX_CHANGE at most
MaxChangeExceeded(cur, next) == next > cur * MAX_CHANGE \/ cur > next * MAX_CHANGE

\* PoolState::promote_params: a ramp from the current amp and gamma to
\* `next`, reached at future_time
promote_params(pool_state, t, next, future_time) ==
    LET cur == get_amp_gamma(pool_state, t)
    IN IF t < pool_state.initial_time + MIN_AMP_CHANGING_TIME
          \/ future_time < t + MIN_AMP_CHANGING_TIME
       THEN [ok |-> FALSE, err |-> "MinChangingTimeAssertion", pool_state |-> pool_state]
       ELSE IF next.amp < AMP_MIN \/ next.amp > AMP_MAX
               \/ next.gamma < GAMMA_MIN \/ next.gamma > GAMMA_MAX
       THEN [ok |-> FALSE, err |-> "IncorrectPoolParam", pool_state |-> pool_state]
       ELSE IF MaxChangeExceeded(cur.amp, next.amp) \/ MaxChangeExceeded(cur.gamma, next.gamma)
       THEN [ok |-> FALSE, err |-> "MaxChangeAssertion", pool_state |-> pool_state]
       ELSE [ok |-> TRUE, err |-> "",
             pool_state |-> [initial |-> cur, future |-> next,
                             initial_time |-> t, future_time |-> future_time]]

\* PoolState::stop_promotion: the ramp ends now, at the values it has reached
stop_promotion(pool_state, t) ==
    [pool_state EXCEPT !.future = get_amp_gamma(pool_state, t), !.future_time = t]

\* Faulty variant of Update: new pool parameters also end a running ramp.
Update_EndsRamp(config, t, msg) ==
    [config EXCEPT !.pool_params = update_params(@, msg.mid_fee),
                   !.pool_state = stop_promotion(@, t)]

\* ConcentratedPoolUpdateParams::Update: config.pool_params.update_params(..)
Update(config, t, msg) == [config EXCEPT !.pool_params = update_params(@, msg.mid_fee)]

\* Faulty variant of Promote: the targets are installed whatever
\* promote_params returns.
Promote_Unchecked(config, t, msg) ==
    [ok |-> TRUE, err |-> "",
     config |-> [config EXCEPT !.pool_state = [@ EXCEPT !.future = msg.next,
                                                        !.future_time = msg.future_time]]]

\* ConcentratedPoolUpdateParams::Promote:
\* config.pool_state.promote_params(&env, promote_params)?
Promote(config, t, msg) ==
    LET promo == promote_params(config.pool_state, t, msg.next, msg.future_time)
    IN [ok |-> promo.ok, err |-> promo.err,
        config |-> [config EXCEPT !.pool_state = promo.pool_state]]

\* Faulty variant of StopChangingAmpGamma: the running ramp is left alone.
StopChangingAmpGamma_Skipped(config, t) == config

\* ConcentratedPoolUpdateParams::StopChangingAmpGamma:
\* config.pool_state.stop_promotion(&env)
StopChangingAmpGamma(config, t) == [config EXCEPT !.pool_state = stop_promotion(@, t)]

\* Faulty variant of PairOwner: the factory's owner, whatever the pair's.
PairOwner_OfFactory(config, fac) == fac.owner

\* config.owner.unwrap_or(factory_config.owner): who may configure the pair
PairOwner(config, fac) == IF config.owner # "" THEN config.owner ELSE fac.owner

\* Faulty variant of update_config: the configuration is saved before the
\* sender is checked.
update_config_SavesFirst(st, bnk, fac, t, msg) ==
    IF msg.sender # fac.owner THEN Fail("Unauthorized", 1, st, NoOut)
    ELSE Done(1, st, NoOut)

\* msg.sender is who calls, msg.kind the variant of
\* ConcentratedPoolUpdateParams
update_config(st, bnk, fac, t, msg) ==
    LET cfg   == st.config
        owner == PairOwner(cfg, fac)
        promo == Promote(cfg, t, msg)
    IN IF msg.sender # owner THEN Fail("Unauthorized", 0, st, NoOut)
       ELSE IF msg.kind = "Update"
       THEN Done(1, [st EXCEPT !.config = Update(cfg, t, msg)], NoOut)
       ELSE IF msg.kind = "Promote"
       THEN IF ~promo.ok THEN Fail(promo.err, 0, st, NoOut)
            ELSE Done(1, [st EXCEPT !.config = promo.config], NoOut)
       ELSE IF msg.kind = "StopChangingAmpGamma"
       THEN Done(1, [st EXCEPT !.config = StopChangingAmpGamma(cfg, t)], NoOut)
       ELSE IF msg.kind = "EnableAssetBalancesTracking"
       THEN IF cfg.track_asset_balances
            THEN Fail("AssetBalancesTrackingIsAlreadyEnabled", 0, st, NoOut)
            ELSE Done(3, [st EXCEPT !.config.track_asset_balances = TRUE,
                                    !.balances = bnk], NoOut)
       ELSE Fail("FeeSharingNotSupported", 0, st, NoOut)

\* ------------------------------------------------------------------------
\* Setting up a pair: the create-denom reply and SetPoolId (contract.rs)
\* ------------------------------------------------------------------------
\* the factory address pinned into the binary
FACTORY_ADDRESS == "factory"

CREATE_DENOM_REPLY_ID == 1

\* the storage instantiate leaves: CONFIG without an LP token denom, no
\* POOL_ID
InstantiatedStore(price_scale, track) ==
    [InitialStore(price_scale, track) EXCEPT !.pool_id = NONE,
                                             !.config.liquidity_token = ""]

\* Faulty variant of reply: the denom of the reply replaces the stored one.
reply_Overwrites(st, msg) ==
    IF msg.id = CREATE_DENOM_REPLY_ID
    THEN Done(1, [st EXCEPT !.config.liquidity_token = msg.new_token_denom], NoOut)
    ELSE Fail("Unknown reply id", 0, st, NoOut)

\* reply: msg.id is the reply id, msg.new_token_denom the denom of
\* MsgCreateDenomResponse
reply(st, msg) ==
    IF msg.id = CREATE_DENOM_REPLY_ID
    THEN IF st.config.liquidity_token = ""
         THEN Done(1, [st EXCEPT !.config.liquidity_token = msg.new_token_denom], NoOut)
         ELSE Fail("Liquidity token denom is already set", 0, st, NoOut)
    ELSE Fail("Unknown reply id", 0, st, NoOut)

\* Faulty variant of set_pool_id: the factory may set the pool id again.
set_pool_id_Again(st, msg) ==
    IF msg.sender # FACTORY_ADDRESS THEN Fail("Unauthorized", 0, st, NoOut)
    ELSE Done(1, [st EXCEPT !.pool_id = msg.pool_id], NoOut)

\* ExecuteMsg::SetPoolId
set_pool_id(st, msg) ==
    IF msg.sender # FACTORY_ADDRESS THEN Fail("Unauthorized", 0, st, NoOut)
    ELSE IF st.pool_id # NONE THEN Fail("PoolIdAlreadySet", 0, st, NoOut)
    ELSE Done(1, [st EXCEPT !.pool_id = msg.pool_id], NoOut)

\* ------------------------------------------------------------------------
\* Ownership (astroport::common; execute of the pair, the factory and the
\* maker)
\* ------------------------------------------------------------------------
\* the longest a proposal may stay open, in blocks of the model
MAX_PROPOSAL_TTL == 2

ProposalFail(err, proposal) ==
    [ok |-> FALSE, err |-> err, proposal |-> proposal, new_owner |-> ""]

\* propose_new_owner: only the owner proposes, and never itself
propose_new_owner(proposal, sender, t, new_owner, expires_in, owner) ==
    IF sender # owner THEN ProposalFail("Unauthorized", proposal)
    ELSE IF new_owner = owner THEN ProposalFail("New owner cannot be same", proposal)
    ELSE IF MAX_PROPOSAL_TTL < expires_in
    THEN ProposalFail("Parameter expires_in cannot be higher than MAX_PROPOSAL_TTL", proposal)
    ELSE [ok |-> TRUE, err |-> "", new_owner |-> "",
          proposal |-> [set |-> TRUE, owner |-> new_owner, ttl |-> t + expires_in]]

\* drop_ownership_proposal: only the owner drops
drop_ownership_proposal(proposal, sender, owner) ==
    IF sender # owner THEN ProposalFail("Unauthorized", proposal)
    ELSE [ok |-> TRUE, err |-> "", new_owner |-> "", proposal |-> NoProposal]

\* claim_ownership: only the proposed address claims, and in time
claim_ownership(proposal, sender, t) ==
    IF ~proposal.set THEN ProposalFail("Ownership proposal not found", proposal)
    ELSE IF sender # proposal.owner THEN ProposalFail("Unauthorized", proposal)
    ELSE IF t > proposal.ttl THEN ProposalFail("Ownership proposal expired", proposal)
    ELSE [ok |-> TRUE, err |-> "", new_owner |-> proposal.owner, proposal |-> NoProposal]

\* pair, ExecuteMsg::ProposeNewOwner
pair_propose_new_owner(st, fac, t, msg) ==
    LET r == propose_new_owner(st.proposal, msg.sender, t, msg.owner, msg.expires_in,
                               PairOwner(st.config, fac))
    IN IF r.ok THEN Done(1, [st EXCEPT !.proposal = r.proposal], NoOut)
       ELSE Fail(r.err, 0, st, NoOut)

\* pair, ExecuteMsg::DropOwnershipProposal
pair_drop_ownership_proposal(st, fac, msg) ==
    LET r == drop_ownership_proposal(st.proposal, msg.sender, PairOwner(st.config, fac))
    IN IF r.ok THEN Done(1, [st EXCEPT !.proposal = r.proposal], NoOut)
       ELSE Fail(r.err, 0, st, NoOut)

\* pair, ExecuteMsg::ClaimOwnership: config.owner = Some(new_owner)
pair_claim_ownership(st, t, msg) ==
    LET r == claim_ownership(st.proposal, msg.sender, t)
    IN IF r.ok THEN Done(2, [st EXCEPT !.proposal = r.proposal,
                                       !.config.owner = r.new_owner], NoOut)
       ELSE Fail(r.err, 0, st, NoOut)

\* What a handler of the factory or of the maker hands back: c is the
\* stored record after the call.
Stored(r, c) == [ok |-> r.ok, err |-> r.err, writes |-> IF r.ok THEN 1 ELSE 0, st |-> c, out |-> NoOut]

\* factory, ExecuteMsg::ProposeNewOwner
factory_propose_new_owner(fac, t, msg) ==
    LET r == propose_new_owner(fac.proposal, msg.sender, t, msg.owner, msg.expires_in, fac.owner)
    IN Stored(r, [fac EXCEPT !.proposal = r.proposal])

\* factory, ExecuteMsg::DropOwnershipProposal
factory_drop_ownership_proposal(fac, msg) ==
    LET r == drop_ownership_proposal(fac.proposal, msg.sender, fac.owner)
    IN Stored(r, [fac EXCEPT !.proposal = r.proposal])

\* factory, ExecuteMsg::ClaimOwnership: v.owner = new_owner
factory_claim_ownership(fac, t, msg) ==
    LET r == claim_ownership(fac.proposal, msg.sender, t)
    IN Stored(r, IF r.ok THEN [fac EXCEPT !.proposal = r.proposal, !.owner = r.new_owner]
                 ELSE fac)

\* ------------------------------------------------------------------------
\* The factory: CreatePair, its reply and Deregister (factory/src/contract.rs)
\* ------------------------------------------------------------------------
INSTANTIATE_PAIR_REPLY_ID == 1
SET_POOL_ID_FAILED_REPLY_ID == 2

\* check_asset_infos: the assets are native denoms that exist, each once
check_asset_infos(asset_infos) ==
    IF \E i, k \in DOMAIN asset_infos : i # k /\ asset_infos[i] = asset_infos[k]
    THEN "DoublingAssets" ELSE "ok"

\* execute_create_pair: msg.fee_paid says that the funds attached are one
\* of the pool creation fees
execute_create_pair(fac, msg) ==
    LET key == pair_key(msg.asset_infos)
        checked == check_asset_infos(msg.asset_infos)
        configs == { pc \in fac.pair_configs : pc.pair_type = msg.pair_type }
    IN IF ~msg.fee_paid THEN Fail("Not enough funds to create a pool", 0, fac, NoOut)
       ELSE IF checked # "ok" THEN Fail(checked, 0, fac, NoOut)
       ELSE IF PairsHas(fac.pairs, key) THEN Fail("PairWasCreated", 0, fac, NoOut)
       ELSE IF configs = {} THEN Fail("PairConfigNotFound", 0, fac, NoOut)
       ELSE IF \E pc \in configs : pc.is_disabled THEN Fail("PairConfigDisabled", 0, fac, NoOut)
       ELSE Done(1, [fac EXCEPT !.tmp_pair_info = [set |-> TRUE, pair_key |-> key]], NoOut)

\* reply of the factory: msg.pair_contract is the contract of the pool id
\* that MsgCreateCosmWasmPoolResponse names
factory_reply(fac, msg) ==
    IF msg.id = INSTANTIATE_PAIR_REPLY_ID
    THEN IF ~fac.tmp_pair_info.set THEN Fail("NotFound", 0, fac, NoOut)
         ELSE IF PairsHas(fac.pairs, fac.tmp_pair_info.pair_key)
         THEN Fail("PairWasRegistered", 0, fac, NoOut)
         ELSE Done(1, [fac EXCEPT !.pairs = PairsSave(@, fac.tmp_pair_info.pair_key,
                                                      msg.pair_contract)], NoOut)
    ELSE IF msg.id = SET_POOL_ID_FAILED_REPLY_ID THEN Done(0, fac, NoOut)
    ELSE Fail("FailedToParseReply", 0, fac, NoOut)

\* deregister: only the owner removes a pair, and only one that is there
deregister(fac, msg) ==
    LET key == pair_key(msg.asset_infos)
        checked == check_asset_infos(msg.asset_infos)
    IN IF checked # "ok" THEN Fail(checked, 0, fac, NoOut)
       ELSE IF msg.sender # fac.owner THEN Fail("Unauthorized", 0, fac, NoOut)
       ELSE IF ~PairsHas(fac.pairs, key) THEN Fail("NotFound", 0, fac, NoOut)
       ELSE Done(1, [fac EXCEPT !.pairs = PairsRemove(@, key)], NoOut)

\* ------------------------------------------------------------------------
\* The maker: instantiate, Collect, UpdateConfig and SetPoolRoutes
\* (maker/src/instantiate.rs, execute.rs, utils.rs)
\* ------------------------------------------------------------------------
\* Decimal::percent(50)
MAX_ALLOWED_SPREAD == 500
\* COOLDOWN_LIMITS = 30..=600 seconds, in blocks of the model
COOLDOWN_MIN == 2
COOLDOWN_MAX == 4
\* the longest route, in hops of the model
MAX_SWAPS_DEPTH == 2

\* None of an Option<String>
NoString == ""

\* validate_native_denom: "1a" stands for every denom of a wrong length
\* or alphabet
validate_native_denom(denom) == denom # "1a"

\* addr_validate: "s" stands for every address the api refuses
addr_validate(addr) == addr # "s"

\* validate_cooldown
validate_cooldown(maybe_cooldown) ==
    IF maybe_cooldown # NONE /\ maybe_cooldown \notin COOLDOWN_MIN..COOLDOWN_MAX
    THEN "IncorrectCooldown" ELSE "ok"

\* the maker before its contract is instantiated
NoMaker ==
    [instantiated |-> FALSE, owner |-> "", astro_denom |-> "", satellite |-> "",
     max_spread |-> 0, collect_cooldown |-> NONE, last_collect_ts |-> 0,
     routes |-> {}, proposal |-> NoProposal]

\* instantiate of the maker: LAST_COLLECT_TS is the block time and CONFIG
\* is saved with collect_cooldown: None
maker_instantiate(mk, t, msg) ==
    IF ~validate_native_denom(msg.astro_denom) THEN Fail("Invalid denom", 0, mk, NoOut)
    ELSE IF msg.max_spread > MAX_ALLOWED_SPREAD THEN Fail("MaxSpreadTooHigh", 0, mk, NoOut)
    ELSE IF validate_cooldown(msg.collect_cooldown) # "ok"
    THEN Fail("IncorrectCooldown", 0, mk, NoOut)
    ELSE IF ~addr_validate(msg.owner) \/ ~addr_validate(msg.satellite)
    THEN Fail("Invalid input", 1, mk, NoOut)
    ELSE Done(2, [mk EXCEPT !.instantiated = TRUE, !.owner = msg.owner,
                            !.astro_denom = msg.astro_denom,
                            !.satellite = msg.satellite,
                            !.max_spread = msg.max_spread,
                            !.collect_cooldown = NONE,
                            !.last_collect_ts = t], NoOut)

\* ROUTES, a map from denom_in to RouteStep
RoutesHas(routes, denom_in) == \E r \in routes : r.denom_in = denom_in
RoutesLoad(routes, denom_in) == CHOOSE r \in routes : r.denom_in = denom_in
RoutesSave(routes, route) == { r \in routes : r.denom_in # route.denom_in } \cup {route}

\* PoolmanagerQuerier::total_pool_liquidity: the denoms of the pools of
\* the chain; the query of any other pool id fails
PoolIds == {1, 2, 3}
PoolDenoms(pool_id) ==
    IF pool_id = 1 THEN {"uusd", "astro"}
    ELSE IF pool_id = 2 THEN {"uatom", "uusd"}
    ELSE {"utest", "uatom", "astro"}

\* the loop of build_routes with `left` rounds to go. The cache of the
\* builder holds what ROUTES holds: set_pool_routes inserts each route it
\* saves, build_routes each step it loads.
RECURSIVE build_from(_, _, _, _, _)
build_from(routes, prev_denom, astro_denom, taken, left) ==
    IF left = 0 \/ prev_denom = astro_denom
    THEN [ok |-> prev_denom = astro_denom,
          err |-> IF prev_denom = astro_denom THEN "" ELSE "FailedToBuildRoute",
          routes |-> taken]
    ELSE IF ~RoutesHas(routes, prev_denom)
    THEN [ok |-> FALSE, err |-> "RouteNotFound", routes |-> taken]
    ELSE LET step == RoutesLoad(routes, prev_denom)
         IN build_from(routes, step.denom_out, astro_denom,
                       Append(taken, [pool_id |-> step.pool_id,
                                      token_out_denom |-> step.denom_out]),
                       left - 1)

\* RoutesBuilder::build_routes
build_routes(routes, denom_in, astro_denom) ==
    build_from(routes, denom_in, astro_denom, <<>>, MAX_SWAPS_DEPTH)

\* Faulty variant of InCooldown: one block short.
InCooldown_Short(cooldown, last_ts, t) ==
    cooldown # NONE /\ t + 1 < last_ts + cooldown

\* collect: Some(cd_period) if env.block.time.seconds() < last_ts + cd_period
InCooldown(cooldown, last_ts, t) ==
    cooldown # NONE /\ t < last_ts + cooldown

\* the loop of collect over assets[i..]: msg.balances is what query_balance
\* answers, msg.spot_ok whether every pool quotes a spot price above zero
RECURSIVE collect_assets(_, _, _, _)
collect_assets(mk, msg, i, messages) ==
    IF i > Len(msg.assets) THEN [ok |-> TRUE, err |-> "", messages |-> messages]
    ELSE LET asset == msg.assets[i]
             held == msg.balances[asset.denom]
             amount == IF asset.amount = NONE THEN held ELSE Min(asset.amount, held)
             built == build_routes(mk.routes, asset.denom, mk.astro_denom)
         IN IF amount = 0 THEN collect_assets(mk, msg, i + 1, messages)
            ELSE IF ~built.ok THEN [ok |-> FALSE, err |-> built.err, messages |-> messages]
            ELSE IF ~msg.spot_ok
            THEN [ok |-> FALSE, err |-> "Zero spot price", messages |-> messages]
            ELSE collect_assets(mk, msg, i + 1,
                                Append(messages, [denom |-> asset.denom, amount |-> amount,
                                                  routes |-> built.routes]))

\* collect, and the swaps it hands to the pool manager: msg.swaps_ok says
\* whether all of them (and the reply to the last) succeed
collect(mk, t, msg) ==
    IF msg.assets = <<>> THEN Fail("EmptyAssets", 0, mk, NoOut)
    ELSE IF InCooldown(mk.collect_cooldown, mk.last_collect_ts, t)
    THEN Fail("Cooldown", 0, mk,
              [NoOut EXCEPT !.next_collect_ts = mk.last_collect_ts + mk.collect_cooldown])
    ELSE LET stamped == [mk EXCEPT !.last_collect_ts = t]
             r == collect_assets(stamped, msg, 1, <<>>)
         IN IF ~r.ok THEN Fail(r.err, 1, stamped, NoOut)
            ELSE IF r.messages = <<>> THEN Fail("NothingToCollect", 1, stamped, NoOut)
            ELSE IF ~msg.swaps_ok THEN Fail("swap failed", 1, stamped, NoOut)
            ELSE Done(1, stamped, [NoOut EXCEPT !.messages = r.messages])

\* update_config of the maker
maker_update_config(mk, msg) ==
    IF msg.sender # mk.owner THEN Fail("Unauthorized", 0, mk, NoOut)
    ELSE IF msg.astro_denom # NoString /\ ~validate_native_denom(msg.astro_denom)
    THEN Fail("Invalid denom", 0, mk, NoOut)
    ELSE IF msg.fee_receiver # NoString /\ ~addr_validate(msg.fee_receiver)
    THEN Fail("Invalid input", 0, mk, NoOut)
    ELSE IF msg.max_spread # NONE /\ msg.max_spread > MAX_ALLOWED_SPREAD
    THEN Fail("MaxSpreadTooHigh", 0, mk, NoOut)
    ELSE IF validate_cooldown(msg.collect_cooldown) # "ok"
    THEN Fail("IncorrectCooldown", 0, mk, NoOut)
    ELSE Done(1, [mk EXCEPT
                    !.astro_denom = IF msg.astro_denom # NoString THEN msg.astro_denom ELSE @,
                    !.satellite = IF msg.fee_receiver # NoString THEN msg.fee_receiver ELSE @,
                    !.max_spread = IF msg.max_spread # NONE THEN msg.max_spread ELSE @,
                    !.collect_cooldown =
                        IF msg.collect_cooldown # NONE THEN msg.collect_cooldown ELSE @],
              NoOut)

\* all_unique over the denom_in of the routes
AllUniqueDenomIn(routes) ==
    \A i, k \in DOMAIN routes : i # k => routes[i].denom_in # routes[k].denom_in

\* the first loop of set_pool_routes over routes[i..]: each route is
\* checked against the pool manager and saved
RECURSIVE save_routes(_, _, _, _, _)
save_routes(stored, astro_denom, routes, i, writes) ==
    IF i > Len(routes) THEN [ok |-> TRUE, err |-> "", routes |-> stored, writes |-> writes]
    ELSE LET route == routes[i]
         IN IF route.denom_in = astro_denom
            THEN [ok |-> FALSE, err |-> "AstroInRoute", routes |-> stored, writes |-> writes]
            ELSE IF route.pool_id \notin PoolIds
            THEN [ok |-> FALSE, err |-> "pool not found", routes |-> stored, writes |-> writes]
            ELSE IF route.denom_in \notin PoolDenoms(route.pool_id)
                    \/ route.denom_out \notin PoolDenoms(route.pool_id)
            THEN [ok |-> FALSE, err |-> "InvalidPoolDenom", routes |-> stored, writes |-> writes]
            ELSE save_routes(RoutesSave(stored, route), astro_denom, routes, i + 1, writes + 1)

\* the second loop of set_pool_routes: the error of the first route of
\* routes[i..] that build_routes refuses
RECURSIVE check_routes(_, _, _, _)
check_routes(stored, astro_denom, routes, i) ==
    IF i > Len(routes) THEN "ok"
    ELSE LET built == build_routes(stored, routes[i].denom_in, astro_denom)
         IN IF ~built.ok THEN built.err
            ELSE check_routes(stored, astro_denom, routes, i + 1)

\* Faulty variant of set_pool_routes: the saved routes are not built.
set_pool_routes_Unchecked(mk, msg) ==
    IF msg.routes = <<>> THEN Fail("EmptyRoutes", 0, mk, NoOut)
    ELSE IF ~AllUniqueDenomIn(msg.routes) THEN Fail("DuplicatedRoutes", 0, mk, NoOut)
    ELSE IF msg.sender # mk.owner THEN Fail("Unauthorized", 0, mk, NoOut)
    ELSE LET saved == save_routes(mk.routes, mk.astro_denom, msg.routes, 1, 0)
             written == [mk EXCEPT !.routes = saved.routes]
         IN IF ~saved.ok THEN Fail(saved.err, saved.writes, written, NoOut)
            ELSE Done(saved.writes, written, NoOut)

\* set_pool_routes
set_pool_routes(mk, msg) ==
    IF msg.routes = <<>> THEN Fail("EmptyRoutes", 0, mk, NoOut)
    ELSE IF ~AllUniqueDenomIn(msg.routes) THEN Fail("DuplicatedRoutes", 0, mk, NoOut)
    ELSE IF msg.sender # mk.owner THEN Fail("Unauthorized", 0, mk, NoOut)
    ELSE LET saved == save_routes(mk.routes, mk.astro_denom, msg.routes, 1, 0)
             written == [mk EXCEPT !.routes = saved.routes]
             checked == check_routes(saved.routes, mk.astro_denom, msg.routes, 1)
         IN IF ~saved.ok THEN Fail(saved.err, saved.writes, written, NoOut)
            ELSE IF checked # "ok" THEN Fail(checked, saved.writes, written, NoOut)
            ELSE Done(saved.writes, written, NoOut)

\* execute of the maker: nonpayable(&info)? before the dispatch; msg.funds
\* says that coins came with the message
nonpayable(mk, msg, r) == IF msg.funds THEN Fail("NonPayable", 0, mk, NoOut) ELSE r

\* the message the maker of the model is instantiated with
InitialMakerMsg ==
    [owner |-> "owner", astro_denom |-> "astro", satellite |-> "satellite",
     max_spread |-> 100, collect_cooldown |-> NONE]

\* the maker after instantiate
InitialMaker == maker_instantiate(NoMaker, 0, InitialMakerMsg).st

\* maker, ExecuteMsg::ProposeNewOwner
maker_propose_new_owner(mk, t, msg) ==
    LET r == propose_new_owner(mk.proposal, msg.sender, t, msg.owner, msg.expires_in, mk.owner)
    IN Stored(r, [mk EXCEPT !.proposal = r.proposal])

\* maker, ExecuteMsg::DropOwnershipProposal
maker_drop_ownership_proposal(mk, msg) ==
    LET r == drop_ownership_proposal(mk.proposal, msg.sender, mk.owner)
    IN Stored(r, [mk EXCEPT !.proposal = r.proposal])

\* maker, ExecuteMsg::ClaimOwnership: v.owner = new_owner
maker_claim_ownership(mk, t, msg) ==
    LET r == claim_ownership(mk.proposal, msg.sender, t)
    IN Stored(r, IF r.ok THEN [mk EXCEPT !.proposal = r.proposal, !.owner = r.new_owner]
                 ELSE mk)

\* ------------------------------------------------------------------------
\* The pair as a state machine
\* ------------------------------------------------------------------------
NoCall == [op |-> "instantiate", ok |-> TRUE, err |-> "", writes |-> 0, out |-> NoOut]

\* instantiate: the price scales offered at instantiation
InitPriceScales == {0, ONE}

\* instantiate: ensure!(!params.price_scale.is_zero(), ..)
InitParamsAccepted(price_scale) == price_scale # 0

Init ==
    /\ \E price_scale \in InitPriceScales, track \in BOOLEAN :
          /\ InitParamsAccepted(price_scale)
          /\ store = InitialStore(price_scale, track)
    /\ bank = <<0, 0>>
    /\ lp_supply = 0
    /\ lp_held = 0
    /\ \E reg \in BOOLEAN, fee_addr \in BOOLEAN :
          factory = [pairs |-> RegisteredPairs(reg), tmp_pair_info |-> NoTmpPairInfo,
                     pair_configs |-> InitialPairConfigs,
                     fee_address |-> fee_addr,
                     maker_fee_rate |-> 500, owner |-> "owner",
                     proposal |-> NoProposal]
    /\ maker = InitialMaker
    /\ now = 0
    /\ lastCall = NoCall
    /\ nops = 0
    /\ nticks = 0

\* The host keeps what a call wrote only if the call returned Ok, and then
\* carries out the messages of its Response.
Commit(op, r, bank2, supply2) ==
    /\ store' = IF r.ok THEN r.st ELSE store
    /\ bank' = IF r.ok THEN bank2 ELSE bank
    /\ lp_supply' = IF r.ok THEN supply2 ELSE lp_supply
    /\ lp_held' = IF r.ok
                  THEN lp_held + r.out.minted_self + r.out.lp_amount - r.out.burned
                  ELSE lp_held
    /\ lastCall' = [op |-> op, ok |-> r.ok, err |-> r.err, writes |-> r.writes,
                    out |-> r.out]
    /\ nops' = nops + 1
    /\ UNCHANGED <<factory, now, nticks, maker>>

\* the pool's balances after a swap: the offer in, the payouts out
AfterSwap(bnk, out) ==
    [bnk EXCEPT ![out.offer_ind] = @ + out.paid_in,
                ![3 - out.offer_ind] = @ - out.to_receiver - out.to_fee]

\* a Provide: the attached funds arrive, the minted LP tokens add to the supply
CommitProvide(msg, r) ==
    Commit("provide", r, <<bank[1] + msg.deposits[1], bank[2] + msg.deposits[2]>>,
           lp_supply + r.out.minted + r.out.minted_self)

\* a Withdraw: the refunds leave, the attached LP tokens are burned
CommitWithdraw(r) ==
    Commit("withdraw", r, <<bank[1] - r.out.refund[1], bank[2] - r.out.refund[2]>>,
           lp_supply - r.out.burned)

\* a swap through the entry point op
CommitSwap(op, r) ==
    Commit(op, r, IF r.ok THEN AfterSwap(bank, r.out) ELSE bank, lp_supply)

\* ------------------------------------------------------------------------
\* Inputs
\* ------------------------------------------------------------------------
ProvideMsg(n, d1, d2, tol) ==
    [n |-> n, deposits |-> <<d1, d2>>, slippage_tolerance |-> tol]

\* balanced, dust-sized, too small, one-sided and three-asset deposits
ProvideMsgs ==
    { ProvideMsg(2, 200, 200, 500), ProvideMsg(2, 5, 6, 500), ProvideMsg(2, 2, 3, 500),
      ProvideMsg(2, 0, 50, 500), ProvideMsg(1, 50, 0, 500), ProvideMsg(1, 50, 0, NONE),
      ProvideMsg(3, 50, 50, 500), ProvideMsg(0, 0, 0, 500) }

WithdrawMsgs ==
    { [amount |-> 0, custom |-> FALSE], [amount |-> 50, custom |-> FALSE],
      [amount |-> 50, custom |-> TRUE], [amount |-> 150, custom |-> FALSE] }

SwapMsgs ==
    { [offer_ind |-> i, amount |-> 100, belief_price |-> NONE, max_spread |-> m] :
        i \in {1, 2}, m \in {NONE, 500} }
    \cup { [offer_ind |-> i, amount |-> 2, belief_price |-> NONE, max_spread |-> NONE] :
             i \in {0, 1, 2} }

SudoInMsgs ==
    { [offer_ind |-> i, amount |-> a, token_out_min_amount |-> 1] :
        i \in {1, 2}, a \in {2, 100} }
    \cup { [offer_ind |-> i, amount |-> 100, token_out_min_amount |-> 100] : i \in {1, 2} }
    \cup { [offer_ind |-> 1, amount |-> 100, token_out_min_amount |-> 0] }

SudoOutMsgs ==
    { [offer_ind |-> i, ask_ind |-> 3 - i, token_in_max_amount |-> 150, token_out |-> o] :
        i \in {1, 2}, o \in {2, 50} }
    \cup { [offer_ind |-> 1, ask_ind |-> 2, token_in_max_amount |-> 1, token_out |-> 50],
           [offer_ind |-> 1, ask_ind |-> 1, token_in_max_amount |-> 150, token_out |-> 2] }

UpdateMsg(sender, kind) ==
    [sender |-> sender, kind |-> kind, mid_fee |-> 30, next |-> [amp |-> 44, gamma |-> 90],
     future_time |-> now + 1]

UpdateMsgs ==
    { UpdateMsg("owner", k) : k \in {"Update", "Promote", "StopChangingAmpGamma",
                                      "EnableAssetBalancesTracking", "EnableFeeShare"} }
    \cup { UpdateMsg("user", "Update") }

\* ------------------------------------------------------------------------
\* Actions
\* ------------------------------------------------------------------------
ProvideLiquidity(msgs, lim) ==
    /\ nops < lim
    /\ \E msg \in msgs :
         CommitProvide(msg, provide_liquidity(store, bank, lp_supply, factory, now, msg))

\* the sender holds the LP tokens it attaches
WithdrawLiquidity(msgs, lim) ==
    /\ nops < lim
    /\ \E msg \in msgs :
         /\ msg.amount <= lp_supply - lp_held
         /\ CommitWithdraw(withdraw_liquidity(store, bank, lp_supply, now, msg))

Swap(msgs, lim) ==
    /\ nops < lim
    /\ \E msg \in msgs :
         CommitSwap("swap", execute_swap(store, bank, lp_supply, factory, now, msg))

SudoSwapExactAmountIn(msgs, lim) ==
    /\ nops < lim
    /\ \E msg \in msgs :
         CommitSwap("sudo_in",
                    sudo_swap_exact_amount_in(store, bank, lp_supply, factory, now,
                        msg.offer_ind, msg.amount, msg.token_out_min_amount, 0))

SudoSwapExactAmountOut(msgs, lim) ==
    /\ nops < lim
    /\ \E msg \in msgs :
         CommitSwap("sudo_out",
                    swap_exact_amount_out(store, bank, lp_supply, factory, now,
                        msg.offer_ind, msg.token_in_max_amount, msg.ask_ind, msg.token_out))

\* an UpdateConfig that carries msg
CommitUpdate(msg) ==
    Commit("update_config", update_config(store, bank, factory, now, msg), bank, lp_supply)

UpdateConfig(msgs, lim) ==
    /\ nops < lim
    /\ \E msg \in msgs : CommitUpdate(msg)

\* a later block, one ma_half_time on
NextBlock(lim) ==
    /\ nticks < lim
    /\ now' = now + 1
    /\ nticks' = nticks + 1
    /\ UNCHANGED <<store, bank, lp_supply, lp_held, factory, lastCall, nops, maker>>

Tick == NextBlock(MaxTicks)

Next ==
    \/ ProvideLiquidity(ProvideMsgs, MaxOps)
    \/ WithdrawLiquidity(WithdrawMsgs, MaxOps)
    \/ Swap(SwapMsgs, MaxOps)
    \/ SudoSwapExactAmountIn(SudoInMsgs, MaxOps)
    \/ SudoSwapExactAmountOut(SudoOutMsgs, MaxOps)
    \/ UpdateConfig(UpdateMsgs, MaxOps)
    \/ Tick

Spec == Init /\ [][Next]_vars

\* ------------------------------------------------------------------------
\* A pair that already holds liquidity: the state after instantiate and one
\* balanced ProvideLiquidity, then trades over several blocks
\* ------------------------------------------------------------------------
MaxPoolOps == 4
MaxPoolTicks == 3

PoolFactory ==
    [pairs |-> RegisteredPairs(TRUE), tmp_pair_info |-> NoTmpPairInfo,
     pair_configs |-> InitialPairConfigs,
     fee_address |-> TRUE, maker_fee_rate |-> 500, owner |-> "owner",
     proposal |-> NoProposal]

FirstProvide == ProvideMsg(2, 200, 200, 500)

InitPool ==
    LET r == provide_liquidity(InitialStore(ONE, FALSE), <<0, 0>>, 0, PoolFactory, 0,
                               FirstProvide)
    IN /\ store = r.st
       /\ bank = FirstProvide.deposits
       /\ lp_supply = r.out.minted + r.out.minted_self
       /\ lp_held = r.out.minted_self
       /\ factory = PoolFactory
       /\ maker = InitialMaker
       /\ now = 0
       /\ lastCall = [op |-> "provide", ok |-> r.ok, err |-> r.err, writes |-> r.writes,
                      out |-> r.out]
       /\ nops = 0
       /\ nticks = 0

PoolProvideMsgs == { ProvideMsg(2, 50, 50, 500) }

PoolWithdrawMsgs == { [amount |-> 50, custom |-> FALSE] }

PoolSwapMsgs ==
    { [offer_ind |-> i, amount |-> a, belief_price |-> NONE, max_spread |-> 500] :
        i \in {1, 2}, a \in {2, 20} }

PoolSudoInMsgs == { [offer_ind |-> 1, amount |-> 20, token_out_min_amount |-> 1] }

PoolSudoOutMsgs ==
    { [offer_ind |-> 2, ask_ind |-> 1, token_in_max_amount |-> 150, token_out |-> 20] }

PoolNext ==
    \/ ProvideLiquidity(PoolProvideMsgs, MaxPoolOps)
    \/ WithdrawLiquidity(PoolWithdrawMsgs, MaxPoolOps)
    \/ Swap(PoolSwapMsgs, MaxPoolOps)
    \/ SudoSwapExactAmountIn(PoolSudoInMsgs, MaxPoolOps)
    \/ SudoSwapExactAmountOut(PoolSudoOutMsgs, MaxPoolOps)
    \/ NextBlock(MaxPoolTicks)

PoolSpec == InitPool /\ [][PoolNext]_vars

\* ------------------------------------------------------------------------
\* The same pair under swaps that state what spread they accept
\* ------------------------------------------------------------------------
MaxTradeOps == 3
MaxTradeTicks == 1

\* (belief_price, max_spread) of a Swap: none; the widest spread allowed; a
\* believed price of 1 with 10% and with 1%; a spread beyond the allowed
SpreadParams == { <<NONE, NONE>>, <<NONE, 500>>, <<ONE, 100>>, <<ONE, 10>>, <<NONE, 600>> }

TradeSwapMsgs ==
    { [offer_ind |-> i, amount |-> a, belief_price |-> p[1], max_spread |-> p[2]] :
        i \in {1, 2}, a \in {2, 20}, p \in SpreadParams }

\* direct calls of the DEX module: no minimum, minimums the swap meets and
\* minimums it misses
TradeSudoInMsgs ==
    { [offer_ind |-> i, amount |-> 20, token_out_min_amount |-> m] :
        i \in {1, 2}, m \in {0, 1, 14, 16, 18, 19, 40} }

TradeNext ==
    \/ Swap(TradeSwapMsgs, MaxTradeOps)
    \/ SudoSwapExactAmountIn(TradeSudoInMsgs, MaxTradeOps)
    \/ NextBlock(MaxTradeTicks)

TradeSpec == InitPool /\ [][TradeNext]_vars

\* ------------------------------------------------------------------------
\* The same pair under swaps that name the amount to receive
\* ------------------------------------------------------------------------
MaxReverseOps == 2
MaxReverseTicks == 1

\* requests the maximum covers, requests it does not cover, and requests
\* that name one asset twice
ReverseMsgs ==
    { [offer_ind |-> i, ask_ind |-> 3 - i, token_in_max_amount |-> m, token_out |-> o] :
        i \in {1, 2}, m \in {1, 25, 150}, o \in {2, 20, 50} }
    \cup { [offer_ind |-> i, ask_ind |-> i, token_in_max_amount |-> 150, token_out |-> 20] :
             i \in {1, 2} }

ReverseNext ==
    \/ SudoSwapExactAmountOut(ReverseMsgs, MaxReverseOps)
    \/ Swap(PoolSwapMsgs, MaxReverseOps)
    \/ NextBlock(MaxReverseTicks)

ReverseSpec == InitPool /\ [][ReverseNext]_vars

\* ------------------------------------------------------------------------
\* The same pair under deposits of different balance
\* ------------------------------------------------------------------------
MaxDepositOps == 2
MaxDepositTicks == 1

\* balanced, slightly and strongly imbalanced and one-sided deposits, with
\* no tolerance named, 2%, 50% and a tolerance beyond the allowed
DepositMsgs ==
    { ProvideMsg(2, d[1], d[2], tol) :
        d \in { <<50, 50>>, <<52, 50>>, <<60, 40>>, <<100, 0>>, <<0, 100>>, <<63, 50>> },
        tol \in { NONE, 20, 500, 600 } }

DepositNext ==
    \/ ProvideLiquidity(DepositMsgs, MaxDepositOps)
    \/ Swap(PoolSwapMsgs, MaxDepositOps)
    \/ NextBlock(MaxDepositTicks)

DepositSpec == InitPool /\ [][DepositNext]_vars

\* ------------------------------------------------------------------------
\* The same pair while its owner ramps amp and gamma
\* ------------------------------------------------------------------------
MaxRampOps == 3
MaxRampTicks == 4

RampMsg(sender, kind, amp, gamma, duration) ==
    [sender |-> sender, kind |-> kind, mid_fee |-> 30,
     next |-> [amp |-> amp, gamma |-> gamma], future_time |-> now + duration]

\* ramps up and down, a ramp that is too short, targets out of bounds, a
\* target more than MAX_CHANGE away, and the other variants
RampMsgs ==
    { RampMsg("owner", "Promote", 44, 90, 2), RampMsg("owner", "Promote", 37, 110, 3),
      RampMsg("owner", "Promote", 44, 90, 0), RampMsg("owner", "Promote", 101, 90, 2),
      RampMsg("owner", "Promote", 44, 0, 2), RampMsg("owner", "Promote", 3, 90, 2),
      RampMsg("owner", "StopChangingAmpGamma", 0, 0, 0),
      RampMsg("owner", "Update", 0, 0, 0), RampMsg("user", "Promote", 44, 90, 2) }

RampNext ==
    \/ UpdateConfig(RampMsgs, MaxRampOps)
    \/ Swap(PoolSwapMsgs, MaxRampOps)
    \/ NextBlock(MaxRampTicks)

RampSpec == InitPool /\ [][RampNext]_vars

\* ------------------------------------------------------------------------
\* Properties
\* ------------------------------------------------------------------------
\* a step that is a call of one of ops, and one that returned Ok
Called(ops) == nops' = nops + 1 /\ lastCall'.op \in ops
Succeeded(ops) == Called(ops) /\ lastCall'.ok

SwapOps == {"swap", "sudo_in", "sudo_out"}

PriceState == store.config.price_state

\* pool balances as decimals
PoolsOf(bnk) == <<ToDecimal(bnk[1], ASSET_PRECISION), ToDecimal(bnk[2], ASSET_PRECISION)>>

\* C1 (amended): a call that returns an error leaves the persisted state,
\* the pool balances and the LP supply as they were before it.  Provide,
\* Withdraw, UpdateConfig, sudo SwapExactAmountOut and a sudo
\* SwapExactAmountIn that finds no SWAP_PARAMS fail before their first
\* storage write; a pair-dispatched Swap may fail after SWAP_PARAMS was
\* saved and removed, and then the host discards these writes.
C1_FailedCallLeavesState ==
    [][(nops' = nops + 1 /\ ~lastCall'.ok) =>
          /\ store' = store
          /\ bank' = bank
          /\ lp_supply' = lp_supply
          /\ lastCall'.op # "swap" => lastCall'.writes = 0
          /\ lastCall'.op = "swap" => lastCall'.writes <= 2]_vars

\* C1, a reached case: a pair-dispatched Swap fails on its spread guard
\* after SWAP_PARAMS was saved and removed
C1_SwapFailedAfterWrites ==
    /\ lastCall.op = "swap"
    /\ ~lastCall.ok
    /\ lastCall.err = "MaxSpreadAssertion"
    /\ lastCall.writes = 2
    /\ ~store.swap_params.set

\* C1 as stated: every guard of a failing call is evaluated before its
\* first storage write
C1_GuardsBeforeFirstWrite == ~lastCall.ok => lastCall.writes = 0

\* C2 as stated: a successful Provide into a pool without LP supply mints
\* xcp - MINIMUM_LIQUIDITY_AMOUNT to the receiver, a positive amount,
\* mints MINIMUM_LIQUIDITY_AMOUNT to the pair itself and sets xcp_profit =
\* xcp_profit_real = 1
C2_FirstProvideMints ==
    (lastCall.op = "provide" /\ lastCall.ok /\ lastCall.out.first) =>
        LET xp  == <<PoolsOf(bank)[1], DMul(PoolsOf(bank)[2], PriceState.price_scale)>>
            xcp == get_xcp(calc_d(xp), PriceState.price_scale)
        IN /\ lastCall.out.minted
                = ToUint(xcp - ToDecimal(MINIMUM_LIQUIDITY_AMOUNT, LP_TOKEN_PRECISION),
                         LP_TOKEN_PRECISION)
           /\ lastCall.out.minted > 0
           /\ lastCall.out.minted_self = MINIMUM_LIQUIDITY_AMOUNT
           /\ PriceState.xcp_profit = ONE
           /\ PriceState.xcp_profit_real = ONE

\* C2, a reached case: the first Provide succeeds and the receiver is
\* minted nothing
C2_FirstProvideMintsNothing ==
    /\ lastCall.op = "provide"
    /\ lastCall.ok
    /\ lastCall.out.first
    /\ lastCall.out.minted = 0
    /\ lp_supply = MINIMUM_LIQUIDITY_AMOUNT

\* what C3 says of a Provide with n_assets assets and the deposits d
ProvideGuards(supply, n_assets, d, ok, err) ==
    /\ (supply = 0 /\ n_assets \in {1, 2} /\ (d[1] = 0 \/ d[2] = 0))
          => (~ok /\ err = "InvalidZeroAmount")
    /\ n_assets > 2 => (~ok /\ err = "InvalidNumberOfAssets")
    /\ (supply > 0 /\ n_assets \in {1, 2} /\ (d[1] = 0) # (d[2] = 0))
          => err \notin {"InvalidZeroAmount", "InvalidNumberOfAssets"}

RefundOf(bnk, share, total_share) ==
    LET share_ratio == FromRatio(share, total_share)
    IN <<DMul(PoolsOf(bnk)[1], share_ratio), DMul(PoolsOf(bnk)[2], share_ratio)>>

\* C4 (amended): a successful Withdraw of lp_amount with an empty asset list
\* refunds, of each pool asset, the balance times (lp_amount - 1) /
\* total_share rounded down to the asset's precision, burns exactly
\* lp_amount, and sets xcp_profit_real to get_xcp(D of the balances less the
\* unrounded refunds) divided by the remaining LP supply; the rest of
\* PriceState stays.
C4_WithdrawRefund ==
    [][Succeeded({"withdraw"}) =>
          LET amount == lastCall'.out.lp_amount
              refund == RefundOf(bank, SatSub(amount, 1), lp_supply)
              ps     == PriceState.price_scale
              d      == calc_d(<<PoolsOf(bank)[1] - refund[1],
                                 DMul(PoolsOf(bank)[2] - refund[2], ps)>>)
          IN /\ ~lastCall'.out.custom
             /\ bank' = <<bank[1] - ToUint(refund[1], ASSET_PRECISION),
                          bank[2] - ToUint(refund[2], ASSET_PRECISION)>>
             /\ lastCall'.out.burned = amount
             /\ lp_supply' = lp_supply - amount
             /\ store'.config.price_state =
                  [PriceState EXCEPT !.xcp_profit_real =
                      DDiv(get_xcp(d, ps), ToDecimal(lp_supply - amount, LP_TOKEN_PRECISION))]
         ]_vars

\* C4, a reached case: a Withdraw has paid out both assets and burned the
\* LP tokens sent with it
C4_WithdrawPaidOut ==
    /\ lastCall.op = "withdraw"
    /\ lastCall.ok
    /\ lastCall.out.burned = lastCall.out.lp_amount
    /\ lastCall.out.burned > 1
    /\ lastCall.out.refund[1] > 0
    /\ lastCall.out.refund[2] > 0

\* C4 as stated: the refund is the balance times lp_amount / total_share
\* rounded down, lp_amount is burned and xcp_profit_real is get_xcp(D of the
\* remaining balances) over the remaining supply
C4_WithdrawRefundWholeShare ==
    [][Succeeded({"withdraw"}) =>
          LET amount == lastCall'.out.lp_amount
              refund == RefundOf(bank, amount, lp_supply)
              ps     == PriceState.price_scale
              d      == calc_d(<<PoolsOf(bank')[1], DMul(PoolsOf(bank')[2], ps)>>)
          IN /\ bank' = <<bank[1] - ToUint(refund[1], ASSET_PRECISION),
                          bank[2] - ToUint(refund[2], ASSET_PRECISION)>>
             /\ lp_supply' = lp_supply - amount
             /\ store'.config.price_state.xcp_profit_real =
                  DDiv(get_xcp(d, ps), ToDecimal(lp_supply', LP_TOKEN_PRECISION))
         ]_vars

\* C5: a Withdraw with a non-empty asset list fails, refunds nothing, burns
\* nothing and leaves the stored state, the pool balances and the LP supply
\* as they were.
C5_ImbalancedWithdrawFails ==
    [][(Called({"withdraw"}) /\ lastCall'.out.custom) =>
          /\ ~lastCall'.ok
          /\ lastCall'.out.refund = <<0, 0>>
          /\ lastCall'.out.burned = 0
          /\ store' = store
          /\ bank' = bank
          /\ lp_supply' = lp_supply]_vars

\* C5, a reached case: a holder of LP tokens asked for a withdrawal in a
\* ratio of its own and was refused
C5_ImbalancedWithdrawRefused ==
    /\ lastCall.op = "withdraw"
    /\ lastCall.out.custom
    /\ lastCall.out.lp_amount > 0
    /\ lp_supply >= lastCall.out.lp_amount + MINIMUM_LIQUIDITY_AMOUNT
    /\ lastCall.err = "ImbalancedWithdrawDisabled"

\* C6: in every successful swap, with compute_swap evaluated on the
\* balances before the swap, the amount actually offered and the maker
\* share the factory grants (none without a fee address), the receiver is
\* sent dy and the fee address maker_fee, each rounded down to the ask
\* asset's precision; the ask-side balance falls by exactly the two, the
\* offer-side balance rises by the offer, and maker_fee is zero when the
\* factory has no fee address.
C6_SwapPayouts ==
    [][Succeeded(SwapOps) =>
          LET out == lastCall'.out
              offer_ind == out.offer_ind
              ask_ind == 3 - offer_ind
              share == IF factory.fee_address THEN factory.maker_fee_rate ELSE 0
              res == compute_swap(PoolsOf(bank), ToDecimal(out.paid_in, ASSET_PRECISION),
                                  ask_ind, store.config, share)
          IN /\ res.ok
             /\ out.dy = res.dy
             /\ out.maker_fee = res.maker_fee
             /\ out.to_receiver = ToUint(res.dy, ASSET_PRECISION)
             /\ out.to_fee = ToUint(res.maker_fee, ASSET_PRECISION)
             /\ ~factory.fee_address => (out.maker_fee = 0 /\ out.to_fee = 0)
             /\ bank'[ask_ind] = bank[ask_ind] - ToUint(res.dy, ASSET_PRECISION)
                                               - ToUint(res.maker_fee, ASSET_PRECISION)
             /\ bank'[offer_ind] = bank[offer_ind] + out.paid_in]_vars

\* C6, a reached case: a swap has paid the receiver and the fee address
C6_SwapPaidMakerFee ==
    /\ lastCall.op \in SwapOps
    /\ lastCall.ok
    /\ factory.fee_address
    /\ lastCall.out.to_receiver > 0
    /\ lastCall.out.to_fee > 0

\* C7 as stated, for PriceState: a successful swap whose offer amount or
\* output amount is below MIN_TRADE_SIZE leaves PriceState unchanged,
\* whichever entry point it came through
C7_SmallSwapKeepsPriceState ==
    [][(/\ Succeeded(SwapOps)
        /\ \/ ToDecimal(lastCall'.out.paid_in, ASSET_PRECISION) < MIN_TRADE_SIZE
           \/ lastCall'.out.dy < MIN_TRADE_SIZE)
         => store'.config.price_state = PriceState]_vars

Ring == store.ring
RingSlots == 0 .. OBSERVATIONS_SIZE - 1

\* the observation a pending slot becomes when it is stored
ObservationOf(pre) ==
    [set |-> TRUE, ts |-> pre.precommit_ts, base_amount |-> pre.base_amount,
     quote_amount |-> pre.quote_amount]

\* the (base, quote) amounts of the trade a call reports
TradeOf(out) ==
    IF out.offer_ind = 1 THEN <<out.paid_in, out.to_receiver>>
    ELSE <<out.to_receiver, out.paid_in>>

\* the trade a call reports is large enough to be observed
Observed(out) ==
    /\ ToDecimal(out.paid_in, ASSET_PRECISION) >= MIN_TRADE_SIZE
    /\ out.dy >= MIN_TRADE_SIZE

RingTimestampsDistinct ==
    \A i, j \in RingSlots :
        (Ring[i].set /\ Ring[j].set /\ i # j) => Ring[i].ts # Ring[j].ts

\* a swap adds its trade to the pending slot of its own block, or opens the
\* slot of a new block; whatever it writes into the ring is the pending
\* observation of an earlier block
SwapStagesTrade ==
    Succeeded(SwapOps) =>
        LET pre   == store.precommit
            trade == TradeOf(lastCall'.out)
        IN /\ \A i \in RingSlots :
                 \/ Ring'[i] = Ring[i]
                 \/ pre.set /\ pre.precommit_ts < now /\ Ring'[i] = ObservationOf(pre)
           /\ Observed(lastCall'.out) =>
                 store'.precommit =
                     IF pre.set /\ pre.precommit_ts = now
                     THEN [pre EXCEPT !.base_amount = @ + trade[1],
                                      !.quote_amount = @ + trade[2]]
                     ELSE [set |-> TRUE, base_amount |-> trade[1],
                           quote_amount |-> trade[2], precommit_ts |-> now]

\* C12: the ring never holds two entries with the same timestamp; swaps of
\* one block add up in the single pending observation; and a swap never
\* writes its own trade into the ring
C12_OneObservationPerBlock == [](RingTimestampsDistinct) /\ [][SwapStagesTrade]_vars

\* C12, a reached case: the ring is full and two swaps of the present block
\* have added up in the pending slot
C12_TwoSwapsOneBlock ==
    /\ \A i \in RingSlots : Ring[i].set
    /\ store.precommit.set /\ store.precommit.precommit_ts = now
    /\ lastCall.op \in SwapOps /\ lastCall.ok /\ Observed(lastCall.out)
    /\ store.precommit.base_amount > TradeOf(lastCall.out)[1]

\* C13 as stated: a pending observation of an earlier block is stored by the
\* first successful provide, withdraw or swap of a later block, at the
\* cursor; the cursor advances and the pending slot no longer holds it
C13_NextOperationStoresPending ==
    [][(Succeeded({"provide", "withdraw"} \cup SwapOps)
        /\ store.precommit.set /\ store.precommit.precommit_ts < now) =>
          /\ Ring'[store.head] = ObservationOf(store.precommit)
          /\ store'.head = (store.head + 1) % OBSERVATIONS_SIZE
          /\ store'.precommit # store.precommit]_vars

\* ------------------------------------------------------------------------
\* Amp and gamma
\* ------------------------------------------------------------------------
PoolState == store.config.pool_state

\* the times a query may come at: now and the blocks after it
LaterTimes == now .. now + MaxRampTicks

\* initial + (future - initial) * clamp((t - initial_time) /
\* (future_time - initial_time), 0, 1), for one parameter
ClampedRamp(initial, future, initial_time, future_time, t) ==
    IF t >= future_time THEN future
    ELSE IF t <= initial_time THEN initial
    ELSE initial + ((future - initial) * (t - initial_time)) \div (future_time - initial_time)

\* C15: at every time from now on the effective amp and gamma are
\* initial + (future - initial) * clamp((t - initial_time) / (future_time -
\* initial_time), 0, 1), so at or after future_time they are the targets
C15_AmpGammaInterpolated ==
    \A t \in LaterTimes :
        LET ps == PoolState
        IN get_amp_gamma(ps, t) =
              [amp   |-> ClampedRamp(ps.initial.amp, ps.future.amp,
                                     ps.initial_time, ps.future_time, t),
               gamma |-> ClampedRamp(ps.initial.gamma, ps.future.gamma,
                                     ps.initial_time, ps.future_time, t)]

\* C15, a reached case: halfway through a ramp of amp from 40 to 44 and of
\* gamma from 100 to 90 the effective values are 42 and 95
C15_HalfwayThroughRamp ==
    /\ PoolState.initial = [amp |-> 40, gamma |-> 100]
    /\ PoolState.future = [amp |-> 44, gamma |-> 90]
    /\ 2 * (now - PoolState.initial_time) = PoolState.future_time - PoolState.initial_time
    /\ get_amp_gamma(PoolState, now) = [amp |-> 42, gamma |-> 95]

StopMsgs == { msg \in RampMsgs : msg.kind = "StopChangingAmpGamma" /\ msg.sender = "owner" }
PromoteMsgs == { msg \in RampMsgs : msg.kind = "Promote" /\ msg.sender = "owner" }

\* C16: StopChangingAmpGamma at time t0 sets future_time to t0, and at t0
\* and at every later time the effective amp and gamma are the values the
\* ramp had reached at t0
C16_StopFreezesRamp ==
    [][\A msg \in StopMsgs : CommitUpdate(msg) =>
          /\ lastCall'.ok
          /\ PoolState'.future_time = now
          /\ \A t \in LaterTimes :
                get_amp_gamma(PoolState', t) = get_amp_gamma(PoolState, now)]_vars

\* C16, a reached case: a ramp from 40 to 44 was stopped halfway, and a block
\* later amp is still 42
C16_StoppedHalfway ==
    /\ PoolState.initial.amp = 40 /\ PoolState.future.amp = 42
    /\ PoolState.future_time > PoolState.initial_time
    /\ now > PoolState.future_time
    /\ get_amp_gamma(PoolState, now).amp = 42

\* the targets of a Promote lie outside the allowed bounds
TargetsOutOfBounds(next) ==
    \/ next.amp < AMP_MIN \/ next.amp > AMP_MAX
    \/ next.gamma < GAMMA_MIN \/ next.gamma > GAMMA_MAX

\* C17: a successful Promote leaves the effective amp and gamma of its
\* block as they were: it takes them as the new initial values at the
\* present time and installs the targets and future_time; a Promote whose
\* targets are out of bounds or whose duration is too short fails and
\* changes nothing
C17_PromoteKeepsCurrent ==
    [][\A msg \in PromoteMsgs : CommitUpdate(msg) =>
          /\ lastCall'.ok =>
                /\ get_amp_gamma(PoolState', now) = get_amp_gamma(PoolState, now)
                /\ PoolState' = [initial |-> get_amp_gamma(PoolState, now),
                                 future |-> msg.next,
                                 initial_time |-> now,
                                 future_time |-> msg.future_time]
          /\ (TargetsOutOfBounds(msg.next) \/ msg.future_time < now + MIN_AMP_CHANGING_TIME) =>
                /\ ~lastCall'.ok
                /\ UNCHANGED <<store, bank, lp_supply>>]_vars

\* C17, a reached case: a second Promote came while a ramp was halfway, and
\* started from the values reached
C17_PromotedMidRamp ==
    /\ lastCall.op = "update_config" /\ lastCall.ok
    /\ PoolState.initial_time = now /\ PoolState.future_time > now
    /\ PoolState.initial.amp = 42
    /\ PoolState.future.amp # 44

RampChangingMsgs ==
    { msg \in UpdateMsgs : msg.kind \in {"Promote", "StopChangingAmpGamma"} }

\* C18: the initial and future amp and gamma and their two times change
\* only in a Promote or a StopChangingAmpGamma; a Provide, a Withdraw, a
\* Swap or an Update of the pool parameters leaves them as they are
C18_OnlyPromoteAndStopMoveRamp ==
    [][PoolState' # PoolState => \E msg \in RampChangingMsgs : CommitUpdate(msg)]_vars

\* C18, a reached case: a swap or a provide has gone through while a ramp
\* was running
C18_TradedDuringRamp ==
    /\ lastCall.op \in {"provide", "withdraw"} \cup SwapOps /\ lastCall.ok
    /\ PoolState.initial_time > 0
    /\ now < PoolState.future_time

\* ------------------------------------------------------------------------
\* Spread and minimum return of a swap
\* ------------------------------------------------------------------------
\* what a swap of `amount` of asset offer_ind would return in the present
\* state: the result of compute_swap
SwapResultNow(offer_ind, amount) ==
    compute_swap(PoolsOf(bank), ToDecimal(amount, ASSET_PRECISION), 3 - offer_ind,
                 store.config, MakerFeeShare(factory))

\* the swap gets as far as the spread guard
ReachesSpreadGuard(offer_ind, amount) ==
    /\ before_swap_check(PoolsOf(bank), ToDecimal(amount, ASSET_PRECISION)) = "ok"
    /\ SwapResultNow(offer_ind, amount).ok

\* the spread a swap realises exceeds max_spread: against the return the
\* believed price promises, or else against the return at the pool's price
SpreadExceeded(belief_price, max_spread, offer_amount, return_amount, spread_amount) ==
    IF belief_price # NONE
    THEN LET expected_return == DMul(offer_amount, DDiv(ONE, belief_price))
         IN /\ return_amount < expected_return
            /\ FromRatio(expected_return - return_amount, expected_return) > max_spread
    ELSE FromRatio(spread_amount, return_amount + spread_amount) > max_spread

\* the guard a Swap message states, and whether the swap violates it
ViolatesSpread(msg) ==
    LET res == SwapResultNow(msg.offer_ind, msg.amount)
        max_spread == IF msg.max_spread = NONE THEN DEFAULT_SLIPPAGE ELSE msg.max_spread
    IN /\ ReachesSpreadGuard(msg.offer_ind, msg.amount)
       /\ max_spread <= MAX_ALLOWED_SLIPPAGE
       /\ ReturnAmount(res) + ToUint(res.spread_fee, ASSET_PRECISION) > 0
       /\ SpreadExceeded(msg.belief_price, max_spread, msg.amount, ReturnAmount(res),
                         ToUint(res.spread_fee, ASSET_PRECISION))

\* a Swap that carries msg
CommitExecuteSwap(msg) ==
    CommitSwap("swap", execute_swap(store, bank, lp_supply, factory, now, msg))

\* C19: a Swap whose spread exceeds what its max_spread and belief_price
\* allow fails with MaxSpreadAssertion; no funds move and nothing is stored
C19_SpreadGuardReverts ==
    [][\A msg \in TradeSwapMsgs : (CommitExecuteSwap(msg) /\ ViolatesSpread(msg)) =>
          /\ ~lastCall'.ok
          /\ lastCall'.err = "MaxSpreadAssertion"
          /\ lastCall'.out.to_receiver = 0 /\ lastCall'.out.to_fee = 0
          /\ UNCHANGED <<store, bank, lp_supply>>]_vars

\* C19, a reached case: a Swap that stated a believed price has failed on
\* its spread after an earlier swap had moved the pool
C19_SwapRefusedOnSpread ==
    /\ lastCall.op = "swap" /\ ~lastCall.ok /\ lastCall.err = "MaxSpreadAssertion"
    /\ bank # FirstProvide.deposits
    /\ \E msg \in TradeSwapMsgs :
          /\ msg.belief_price # NONE
          /\ msg.offer_ind = lastCall.out.offer_ind /\ msg.amount = lastCall.out.offer_amount
          /\ ViolatesSpread(msg)

\* a SwapExactAmountIn that the DEX module sends on its own carries msg
CommitSudoIn(msg) ==
    CommitSwap("sudo_in",
               sudo_swap_exact_amount_in(store, bank, lp_supply, factory, now,
                   msg.offer_ind, msg.amount, msg.token_out_min_amount, 0))

\* errors by which the minimum-return guard stops a swap
MinimumGuardErrors == {"MaxSpreadAssertion", "BeliefPriceZero", "DivideByZero"}

\* C20 as stated: a SwapExactAmountIn sent without stored swap parameters,
\* whatever its token_out_min_amount, zero included, reverts when the swap
\* would return less than that amount and is not stopped by the guard when
\* it would return at least that amount
C20_MinimumReturnGuard ==
    [][\A msg \in TradeSudoInMsgs :
          (CommitSudoIn(msg) /\ ~store.swap_params.set
           /\ ReachesSpreadGuard(msg.offer_ind, msg.amount)) =>
             LET return_amount == ReturnAmount(SwapResultNow(msg.offer_ind, msg.amount))
             IN IF return_amount < msg.token_out_min_amount
                THEN ~lastCall'.ok /\ UNCHANGED <<store, bank, lp_supply>>
                ELSE lastCall'.err \notin MinimumGuardErrors]_vars

\* ------------------------------------------------------------------------
\* Swaps that name the amount to receive
\* ------------------------------------------------------------------------
\* a SwapExactAmountOut that carries msg
CommitSudoOut(msg) ==
    CommitSwap("sudo_out",
               swap_exact_amount_out(store, bank, lp_supply, factory, now,
                   msg.offer_ind, msg.token_in_max_amount, msg.ask_ind, msg.token_out))

\* what compute_offer_amount asks for the requested amount in the present
\* state
OfferNeeded(msg) ==
    compute_offer_amount(PoolsOf(bank), ToDecimal(msg.token_out, ASSET_PRECISION),
                         msg.ask_ind, store.config)

\* C21: a SwapExactAmountOut fails when token_in_denom is the denom of
\* token_out and when the offer needed for token_out exceeds
\* token_in_max_amount; when it succeeds the token_in_amount it reports is
\* at most token_in_max_amount; when it fails no funds move and nothing is
\* stored
C21_ReverseSwapGuards ==
    [][\A msg \in ReverseMsgs : CommitSudoOut(msg) =>
          /\ msg.offer_ind = msg.ask_ind => ~lastCall'.ok /\ lastCall'.err = "InvalidSwap"
          /\ (/\ msg.offer_ind # msg.ask_ind
              /\ OfferNeeded(msg).ok
              /\ ToUint(OfferNeeded(msg).offer_amount, ASSET_PRECISION)
                     > msg.token_in_max_amount)
                => ~lastCall'.ok /\ lastCall'.err = "NotEnoughTokens"
          /\ lastCall'.ok => lastCall'.out.paid_in <= msg.token_in_max_amount
          /\ ~lastCall'.ok =>
                /\ lastCall'.out.to_receiver = 0 /\ lastCall'.out.paid_in = 0
                /\ UNCHANGED <<store, bank, lp_supply>>]_vars

\* C21, a reached case: after an earlier trade a request was refused
\* because it needed more than token_in_max_amount
C21_ReverseSwapRefused ==
    /\ lastCall.op = "sudo_out" /\ ~lastCall.ok /\ lastCall.err = "NotEnoughTokens"
    /\ lastCall.out.offer_amount > 1
    /\ bank # FirstProvide.deposits

\* ------------------------------------------------------------------------
\* Deposits into a pool that holds liquidity
\* ------------------------------------------------------------------------
\* a ProvideLiquidity that carries msg
CommitProvideLiquidity(msg) ==
    CommitProvide(msg, provide_liquidity(store, bank, lp_supply, factory, now, msg))

DepositOf(msg) ==
    <<ToDecimal(msg.deposits[1], ASSET_PRECISION), ToDecimal(msg.deposits[2], ASSET_PRECISION)>>

\* the pool after the deposit, in internal representation
DepositedPool(msg) ==
    <<PoolsOf(bank)[1] + DepositOf(msg)[1],
      DMul(PoolsOf(bank)[2] + DepositOf(msg)[2], PriceState.price_scale)>>

\* the LP share the deposit earns in the present state: the growth of D
\* less the provide fee
DepositShare(msg) ==
    LET total_share == ToDecimal(lp_supply, LP_TOKEN_PRECISION)
        old_d == calc_d(<<PoolsOf(bank)[1], DMul(PoolsOf(bank)[2], PriceState.price_scale)>>)
        new_d == calc_d(DepositedPool(msg))
        ideposits == <<DepositOf(msg)[1], DMul(DepositOf(msg)[2], PriceState.price_scale)>>
    IN DMul(SatSub(DDiv(DMul(total_share, new_d), old_d), total_share),
            ONE - calc_provide_fee(ideposits, DepositedPool(msg), store.config.pool_params))

\* how far the deposit is from the balanced share of the pool it earns, by
\* asset
DepositDeviation(msg) ==
    LET share == DepositShare(msg)
        share_ratio == DDiv(share, ToDecimal(lp_supply, LP_TOKEN_PRECISION) + share)
    IN <<AbsDiff(DepositOf(msg)[1], DMul(DepositedPool(msg)[1], share_ratio)),
         AbsDiff(DepositOf(msg)[2],
                 DDiv(DMul(DepositedPool(msg)[2], share_ratio), PriceState.price_scale))>>

\* the share of the deposit's value that the LP tokens received do not cover
DepositSlippage(msg) ==
    LET deposit_value == DepositOf(msg)[1] + DMul(DepositOf(msg)[2], PriceState.price_scale)
        lp_value == DMul(DMul(DepositShare(msg), 2 * DSqrt(PriceState.price_scale)),
                         PriceState.xcp_profit_real)
    IN DDiv(SatSub(deposit_value, lp_value), deposit_value)

ToleranceOf(msg) ==
    IF msg.slippage_tolerance = NONE THEN DEFAULT_SLIPPAGE ELSE msg.slippage_tolerance

\* errors by which a Provide stops before it looks at the balance of the
\* deposit
EarlyProvideErrors ==
    {"PairIsNotRegistered", "NothingToProvide", "InvalidNumberOfAssets",
     "InvalidZeroAmount", "MinimumLiquidityAmountError", "DivideByZero"}

\* C22: a Provide into a pool that holds liquidity, when the deposit is at
\* least MIN_TRADE_SIZE away from the balanced share on both assets,
\* succeeds only with a slippage within slippage_tolerance, and then the
\* price the deposit implies is given to the price update; when it is
\* closer than MIN_TRADE_SIZE on either asset, no slippage is checked and
\* PriceState stays as it is
C22_ImbalancedProvideChecked ==
    [][\A msg \in DepositMsgs :
          (CommitProvideLiquidity(msg) /\ lp_supply > 0
           /\ lastCall'.err \notin EarlyProvideErrors) =>
             LET diff == DepositDeviation(msg)
             IN IF diff[1] >= MIN_TRADE_SIZE /\ diff[2] >= MIN_TRADE_SIZE
                THEN lastCall'.ok =>
                       /\ DepositSlippage(msg) <= ToleranceOf(msg)
                       /\ ToleranceOf(msg) <= MAX_ALLOWED_SLIPPAGE
                       /\ lastCall'.out.price_updated
                       /\ PriceState'.last_price = DDiv(diff[1], diff[2])
                ELSE /\ lastCall'.ok
                     /\ ~lastCall'.out.price_updated
                     /\ PriceState' = PriceState]_vars

\* C22, a reached case: after a swap an imbalanced deposit was refused for
\* its slippage
C22_DepositRefusedOnSlippage ==
    /\ lastCall.op = "provide" /\ ~lastCall.ok /\ lastCall.err = "MaxSpreadAssertion"
    /\ nops = 2 /\ bank # FirstProvide.deposits

\* ------------------------------------------------------------------------
\* Order of external reads and storage writes within one operation
\* ------------------------------------------------------------------------
PoolOps == {"provide", "withdraw", "swap", "sudo_in", "sudo_out"}

\* a pair-dispatched Swap that ends with one of these has not reached
\* internal_swap and made no external read
SwapErrorsBeforeReads == {"InvalidAsset", "NotFound"}

\* C23: within every Provide, Withdraw, sudo SwapExactAmountIn and sudo
\* SwapExactAmountOut the external reads (pool balances, LP supply, factory
\* fee info) are made before the first storage write; a pair-dispatched
\* Swap has saved and removed SWAP_PARAMS, two writes and no other, when it
\* makes them; every successful operation saves CONFIG exactly once.
C23_ReadsThenOneSave ==
    /\ lastCall.op \in PoolOps \ {"swap"} => lastCall.out.read_after = 0
    /\ lastCall.op = "swap" =>
          lastCall.out.read_after = IF lastCall.err \in SwapErrorsBeforeReads THEN 0 ELSE 2
    /\ (lastCall.op \in PoolOps /\ lastCall.ok) => lastCall.out.config_saves = 1

\* C23 as stated: every operation makes its external reads before its
\* first storage write and saves its pool state once
C23_ReadsBeforeFirstWrite ==
    lastCall.op \in PoolOps =>
        /\ lastCall.out.read_after = 0
        /\ lastCall.ok => lastCall.out.config_saves = 1

\* C23, a reached case: a pair-dispatched Swap went through in a pool that
\* had traded before, and read the balances after its two writes
C23_SwapReadAfterParams ==
    /\ lastCall.op = "swap" /\ lastCall.ok
    /\ lastCall.out.read_after = 2 /\ lastCall.out.config_saves = 1
    /\ nops >= 2

\* ------------------------------------------------------------------------
\* Owners of the pair, the factory and the maker
\* ------------------------------------------------------------------------
MaxOwnerOps == 4
MaxOwnerTicks == 2

Addrs == {"owner", "new_owner", "user"}

ProposeMsgs ==
    { [sender |-> s, owner |-> o, expires_in |-> e] :
        s \in Addrs, o \in {"owner", "new_owner"}, e \in {1, 3} }

SenderMsgs == { [sender |-> s] : s \in Addrs }

OwnerUpdateMsgs ==
    { UpdateMsg(s, k) : s \in Addrs,
        k \in {"Update", "Promote", "StopChangingAmpGamma", "EnableAssetBalancesTracking"} }

CommitPairPropose(msg) ==
    Commit("pair_propose", pair_propose_new_owner(store, factory, now, msg), bank, lp_supply)

CommitPairDrop(msg) ==
    Commit("pair_drop", pair_drop_ownership_proposal(store, factory, msg), bank, lp_supply)

CommitPairClaim(msg) ==
    Commit("pair_claim", pair_claim_ownership(store, now, msg), bank, lp_supply)

\* The host keeps what a call of the factory wrote only if it returned Ok.
CommitFactory(op, r) ==
    /\ factory' = IF r.ok THEN r.st ELSE factory
    /\ lastCall' = [op |-> op, ok |-> r.ok, err |-> r.err, writes |-> r.writes, out |-> r.out]
    /\ nops' = nops + 1
    /\ UNCHANGED <<store, bank, lp_supply, lp_held, now, nticks, maker>>

\* The host keeps what a call of the maker wrote only if it returned Ok.
CommitMaker(op, r) ==
    /\ maker' = IF r.ok THEN r.st ELSE maker
    /\ lastCall' = [op |-> op, ok |-> r.ok, err |-> r.err, writes |-> r.writes, out |-> r.out]
    /\ nops' = nops + 1
    /\ UNCHANGED <<store, bank, lp_supply, lp_held, now, nticks, factory>>

CommitFactoryPropose(msg) ==
    CommitFactory("factory_propose", factory_propose_new_owner(factory, now, msg))

CommitFactoryDrop(msg) ==
    CommitFactory("factory_drop", factory_drop_ownership_proposal(factory, msg))

CommitFactoryClaim(msg) ==
    CommitFactory("factory_claim", factory_claim_ownership(factory, now, msg))

CommitMakerPropose(msg) ==
    CommitMaker("maker_propose", maker_propose_new_owner(maker, now, msg))

CommitMakerDrop(msg) ==
    CommitMaker("maker_drop", maker_drop_ownership_proposal(maker, msg))

CommitMakerClaim(msg) ==
    CommitMaker("maker_claim", maker_claim_ownership(maker, now, msg))

PairProposeNewOwner(msgs, lim) == nops < lim /\ \E msg \in msgs : CommitPairPropose(msg)
PairDropOwnershipProposal(msgs, lim) == nops < lim /\ \E msg \in msgs : CommitPairDrop(msg)
PairClaimOwnership(msgs, lim) == nops < lim /\ \E msg \in msgs : CommitPairClaim(msg)
FactoryProposeNewOwner(msgs, lim) == nops < lim /\ \E msg \in msgs : CommitFactoryPropose(msg)
FactoryDropOwnershipProposal(msgs, lim) == nops < lim /\ \E msg \in msgs : CommitFactoryDrop(msg)
FactoryClaimOwnership(msgs, lim) == nops < lim /\ \E msg \in msgs : CommitFactoryClaim(msg)
MakerProposeNewOwner(msgs, lim) == nops < lim /\ \E msg \in msgs : CommitMakerPropose(msg)
MakerDropOwnershipProposal(msgs, lim) == nops < lim /\ \E msg \in msgs : CommitMakerDrop(msg)
MakerClaimOwnership(msgs, lim) == nops < lim /\ \E msg \in msgs : CommitMakerClaim(msg)

OwnerNext ==
    \/ PairProposeNewOwner(ProposeMsgs, MaxOwnerOps)
    \/ PairDropOwnershipProposal(SenderMsgs, MaxOwnerOps)
    \/ PairClaimOwnership(SenderMsgs, MaxOwnerOps)
    \/ FactoryProposeNewOwner(ProposeMsgs, MaxOwnerOps)
    \/ FactoryDropOwnershipProposal(SenderMsgs, MaxOwnerOps)
    \/ FactoryClaimOwnership(SenderMsgs, MaxOwnerOps)
    \/ MakerProposeNewOwner(ProposeMsgs, MaxOwnerOps)
    \/ MakerDropOwnershipProposal(SenderMsgs, MaxOwnerOps)
    \/ MakerClaimOwnership(SenderMsgs, MaxOwnerOps)
    \/ UpdateConfig(OwnerUpdateMsgs, MaxOwnerOps)
    \/ NextBlock(MaxOwnerTicks)

OwnerSpec == InitPool /\ [][OwnerNext]_vars

\* who may configure the pair now
ConfiguringOwner == IF store.config.owner # "" THEN store.config.owner ELSE factory.owner

\* C25: an UpdateConfig (Update, Promote, StopChangingAmpGamma,
\* EnableAssetBalancesTracking) succeeds only when its sender is the pair's
\* own owner if one is set and the factory's owner otherwise; any other
\* sender gets Unauthorized and CONFIG stays as it was.
C25_OnlyOwnerConfigures ==
    [][\A msg \in OwnerUpdateMsgs :
          CommitUpdate(msg) =>
             /\ lastCall'.ok => msg.sender = ConfiguringOwner
             /\ msg.sender # ConfiguringOwner =>
                   /\ ~lastCall'.ok /\ lastCall'.err = "Unauthorized"
                   /\ store'.config = store.config]_vars

\* C25, a reached case: the pair has an owner of its own, the factory
\* another, and an UpdateConfig was refused
C25_RefusedUnderOwnOwner ==
    /\ lastCall.op = "update_config" /\ ~lastCall.ok /\ lastCall.err = "Unauthorized"
    /\ store.config.owner = "new_owner" /\ factory.owner = "owner"

\* ------------------------------------------------------------------------
\* A pair between its instantiation and its first deposits
\* ------------------------------------------------------------------------
MaxSetupOps == 4
MaxSetupTicks == 1

ReplyMsgs ==
    { [id |-> i, new_token_denom |-> d] :
        i \in {1, 3000},
        d \in {"factory/pair0000/astroport/share", "other"} }

SetPoolIdMsgs ==
    { [sender |-> s, pool_id |-> id] : s \in {FACTORY_ADDRESS, "random"}, id \in {1, 2} }

\* the state instantiate leaves, in a factory that is about to register
\* the pair
InitInstantiated ==
    /\ store = InstantiatedStore(ONE, FALSE)
    /\ bank = <<0, 0>>
    /\ lp_supply = 0
    /\ lp_held = 0
    /\ factory = PoolFactory
    /\ maker = InitialMaker
    /\ now = 0
    /\ lastCall = NoCall
    /\ nops = 0
    /\ nticks = 0

CommitReply(msg) == Commit("reply", reply(store, msg), bank, lp_supply)

CommitSetPoolId(msg) == Commit("set_pool_id", set_pool_id(store, msg), bank, lp_supply)

Reply(msgs, lim) == nops < lim /\ \E msg \in msgs : CommitReply(msg)

SetPoolId(msgs, lim) == nops < lim /\ \E msg \in msgs : CommitSetPoolId(msg)

SetupNext ==
    \/ Reply(ReplyMsgs, MaxSetupOps)
    \/ SetPoolId(SetPoolIdMsgs, MaxSetupOps)
    \/ ProvideLiquidity({FirstProvide}, MaxSetupOps)
    \/ Swap(PoolSwapMsgs, MaxSetupOps)
    \/ NextBlock(MaxSetupTicks)

SetupSpec == InitInstantiated /\ [][SetupNext]_vars

\* C26: SetPoolId succeeds only when the pinned factory address sends it
\* and no pool id is stored; any other sender gets Unauthorized, a second
\* call of the factory PoolIdAlreadySet, and no step changes a stored POOL_ID.
C26_PoolIdSetOnce ==
    [][/\ \A msg \in SetPoolIdMsgs :
            CommitSetPoolId(msg) =>
               /\ lastCall'.ok <=> (msg.sender = "factory" /\ store.pool_id = NONE)
               /\ lastCall'.ok => store'.pool_id = msg.pool_id
               /\ msg.sender # "factory" => lastCall'.err = "Unauthorized"
               /\ (msg.sender = "factory" /\ store.pool_id # NONE) =>
                     lastCall'.err = "PoolIdAlreadySet"
       /\ store.pool_id # NONE => store'.pool_id = store.pool_id]_vars

\* C26, a reached case: the factory tried to set another pool id
C26_SecondSetRefused ==
    /\ lastCall.op = "set_pool_id" /\ ~lastCall.ok /\ lastCall.err = "PoolIdAlreadySet"
    /\ store.pool_id = 1

\* C27: a reply with the create-denom id sets the LP token denom when none
\* is stored and fails with "Liquidity token denom is already set"
\* otherwise, a reply with any other id fails with "Unknown reply id", and
\* no step changes a stored denom.
C27_LpDenomSetOnce ==
    [][/\ \A msg \in ReplyMsgs :
            CommitReply(msg) =>
               /\ lastCall'.ok <=> (msg.id = 1 /\ store.config.liquidity_token = "")
               /\ lastCall'.ok => store'.config.liquidity_token = msg.new_token_denom
               /\ msg.id # 1 => lastCall'.err = "Unknown reply id"
               /\ (msg.id = 1 /\ store.config.liquidity_token # "") =>
                     lastCall'.err = "Liquidity token denom is already set"
       /\ store.config.liquidity_token # "" =>
             store'.config.liquidity_token = store.config.liquidity_token]_vars

\* C27, a reached case: a second create-denom reply, with another denom,
\* was refused
C27_SecondDenomRefused ==
    /\ lastCall.op = "reply" /\ ~lastCall.ok
    /\ lastCall.err = "Liquidity token denom is already set"
    /\ store.config.liquidity_token = "other"

\* ------------------------------------------------------------------------
\* The factory's registry and the pair that depends on it
\* ------------------------------------------------------------------------
MaxFactoryOps == 4
MaxFactoryTicks == 1

CreatePairMsg(asset_infos, pair_type, fee_paid) ==
    [asset_infos |-> asset_infos, pair_type |-> pair_type, fee_paid |-> fee_paid]

\* the pair's assets in both orders, another pair, one asset twice, a pair
\* type without configuration, and a call without the creation fee
CreatePairMsgs ==
    { CreatePairMsg(a, "concentrated", TRUE) :
        a \in { <<UOSMO, UUSD>>, <<UUSD, UOSMO>>, <<UOSMO, UION>>, <<UOSMO, UOSMO>> } }
    \cup { CreatePairMsg(<<UION, UOSMO>>, "xyk", TRUE),
           CreatePairMsg(<<UUSD, UOSMO>>, "concentrated", FALSE) }

FactoryReplyMsgs ==
    { [id |-> 1, pair_contract |-> "pair0000"], [id |-> 1, pair_contract |-> "pair0001"],
      [id |-> 2, pair_contract |-> ""], [id |-> 3, pair_contract |-> ""] }

DeregisterMsgs ==
    { [sender |-> s, asset_infos |-> a] :
        s \in {"owner", "user"}, a \in { <<UUSD, UOSMO>>, <<UOSMO, UION>> } }
    \cup { [sender |-> "owner", asset_infos |-> <<UUSD, UUSD>>] }

FactorySwapMsgs == { m \in PoolSwapMsgs : m.amount = 20 }

CommitCreatePair(msg) == CommitFactory("create_pair", execute_create_pair(factory, msg))

CommitFactoryReply(msg) == CommitFactory("factory_reply", factory_reply(factory, msg))

CommitDeregister(msg) == CommitFactory("deregister", deregister(factory, msg))

CreatePair(msgs, lim) == nops < lim /\ \E msg \in msgs : CommitCreatePair(msg)

FactoryReply(msgs, lim) == nops < lim /\ \E msg \in msgs : CommitFactoryReply(msg)

Deregister(msgs, lim) == nops < lim /\ \E msg \in msgs : CommitDeregister(msg)

FactoryNext ==
    \/ CreatePair(CreatePairMsgs, MaxFactoryOps)
    \/ FactoryReply(FactoryReplyMsgs, MaxFactoryOps)
    \/ Deregister(DeregisterMsgs, MaxFactoryOps)
    \/ ProvideLiquidity(PoolProvideMsgs, MaxFactoryOps)
    \/ WithdrawLiquidity(PoolWithdrawMsgs, MaxFactoryOps)
    \/ Swap(FactorySwapMsgs, MaxFactoryOps)
    \/ NextBlock(MaxFactoryTicks)

FactorySpec == InitPool /\ [][FactoryNext]_vars

\* PAIRS of the factory holds no pair for uosmo and uusd
PoolUnregistered == ~\E p \in factory.pairs : p.key = <<1, 2>>

\* C28: a Provide fails with PairIsNotRegistered, and leaves the pool as it
\* was, whenever the factory holds no pair for the pool's assets; no Swap
\* and no Withdraw ever fails with that error.
C28_OnlyProvideChecksRegistration ==
    [][/\ \A msg \in PoolProvideMsgs :
            (CommitProvideLiquidity(msg) /\ PoolUnregistered) =>
               /\ ~lastCall'.ok /\ lastCall'.err = "PairIsNotRegistered"
               /\ UNCHANGED <<store, bank, lp_supply>>
       /\ lastCall'.op \in {"swap", "withdraw"} => lastCall'.err # "PairIsNotRegistered"]_vars

\* C28, a reached case: after the pair was deregistered a Swap or a
\* Withdraw went through
C28_TradedWhileUnregistered ==
    /\ PoolUnregistered
    /\ lastCall.op \in {"swap", "withdraw"} /\ lastCall.ok
    /\ nops >= 2

\* the asset lists of the model, and the keys under which the assets of a
\* list may be stored, in whatever order
AssetLists == { <<a, b>> : a \in {UOSMO, UUSD, UION}, b \in {UOSMO, UUSD, UION} }
SameAssets(a, b) == { a[i] : i \in DOMAIN a } = { b[i] : i \in DOMAIN b }
KeysOf(asset_infos) == { a[1] \o a[2] : a \in { b \in AssetLists : SameAssets(b, asset_infos) } }
PairsOf(fac, asset_infos) == { p \in fac.pairs : p.key \in KeysOf(asset_infos) }

\* C29: the factory holds at most one pair per set of assets: a CreatePair
\* for a set that has a pair fails with PairWasCreated in whatever order
\* the assets come, an instantiate reply for a key that has a pair fails
\* with PairWasRegistered and registers nothing, and after a Deregister,
\* which only the owner achieves, a CreatePair for the set is accepted.
C29_OnePairPerAssetSet ==
    [][/\ \A msg \in CreatePairMsgs :
            (/\ CommitCreatePair(msg)
             /\ msg.fee_paid /\ msg.asset_infos[1] # msg.asset_infos[2]
             /\ PairsOf(factory, msg.asset_infos) # {}) =>
                ~lastCall'.ok /\ lastCall'.err = "PairWasCreated"
       /\ \A msg \in FactoryReplyMsgs :
            (/\ CommitFactoryReply(msg) /\ msg.id = 1 /\ factory.tmp_pair_info.set
             /\ \E p \in factory.pairs : p.key = factory.tmp_pair_info.pair_key) =>
                /\ ~lastCall'.ok /\ lastCall'.err = "PairWasRegistered"
                /\ factory' = factory
       /\ \A msg \in DeregisterMsgs :
            (CommitDeregister(msg) /\ lastCall'.ok) =>
                /\ msg.sender = factory.owner
                /\ PairsOf(factory', msg.asset_infos) = {}
                /\ execute_create_pair(factory',
                        CreatePairMsg(msg.asset_infos, "concentrated", TRUE)).ok
       /\ \A a \in AssetLists : Cardinality(PairsOf(factory', a)) <= 1]_vars

\* C29, a reached case: the pair was deregistered, created again and
\* registered under another address
C29_RegisteredAgain ==
    /\ lastCall.op = "factory_reply" /\ lastCall.ok
    /\ [key |-> <<1, 2>>, addr |-> "pair0001"] \in factory.pairs

\* ------------------------------------------------------------------------
\* Transfers of ownership
\* ------------------------------------------------------------------------
\* the owner of the pair: its own if it has one, the factory's otherwise
OwnerOfPair(st, fac) == IF st.config.owner # "" THEN st.config.owner ELSE fac.owner

\* only the owner proposes and drops
OnlyOwnerProposes ==
    /\ \A msg \in ProposeMsgs :
          /\ (CommitPairPropose(msg) /\ msg.sender # OwnerOfPair(store, factory)) =>
                ~lastCall'.ok /\ store' = store
          /\ (CommitFactoryPropose(msg) /\ msg.sender # factory.owner) =>
                ~lastCall'.ok /\ factory' = factory
          /\ (CommitMakerPropose(msg) /\ msg.sender # maker.owner) =>
                ~lastCall'.ok /\ maker' = maker
    /\ \A msg \in SenderMsgs :
          /\ (CommitPairDrop(msg) /\ msg.sender # OwnerOfPair(store, factory)) =>
                ~lastCall'.ok /\ store' = store
          /\ (CommitFactoryDrop(msg) /\ msg.sender # factory.owner) =>
                ~lastCall'.ok /\ factory' = factory
          /\ (CommitMakerDrop(msg) /\ msg.sender # maker.owner) =>
                ~lastCall'.ok /\ maker' = maker

\* a claim succeeds only for the address a pending proposal names, and
\* without a proposal fails with "Ownership proposal not found"
OnlyProposedClaims ==
    \A msg \in SenderMsgs :
       /\ CommitPairClaim(msg) =>
             /\ lastCall'.ok => store.proposal.set /\ msg.sender = store.proposal.owner
             /\ ~store.proposal.set => lastCall'.err = "Ownership proposal not found"
       /\ CommitFactoryClaim(msg) =>
             /\ lastCall'.ok => factory.proposal.set /\ msg.sender = factory.proposal.owner
             /\ ~factory.proposal.set => lastCall'.err = "Ownership proposal not found"
       /\ CommitMakerClaim(msg) =>
             /\ lastCall'.ok => maker.proposal.set /\ msg.sender = maker.proposal.owner
             /\ ~maker.proposal.set => lastCall'.err = "Ownership proposal not found"

\* a proposal disappears with a successful drop
DropRemovesProposal ==
    /\ (lastCall'.op = "pair_drop" /\ lastCall'.ok) => ~store'.proposal.set
    /\ (lastCall'.op = "factory_drop" /\ lastCall'.ok) => ~factory'.proposal.set
    /\ (lastCall'.op = "maker_drop" /\ lastCall'.ok) => ~maker'.proposal.set

\* an owner changes only in a successful claim, to the address that the
\* pending proposal names; a pair without an owner of its own follows the
\* factory's
OwnerChangesInClaim ==
    /\ OwnerOfPair(store', factory') # OwnerOfPair(store, factory) =>
          \/ /\ lastCall'.op = "pair_claim" /\ lastCall'.ok
             /\ OwnerOfPair(store', factory') = store.proposal.owner
          \/ /\ lastCall'.op = "factory_claim" /\ lastCall'.ok
             /\ store.config.owner = ""
             /\ OwnerOfPair(store', factory') = factory.proposal.owner
    /\ factory'.owner # factory.owner =>
          /\ lastCall'.op = "factory_claim" /\ lastCall'.ok
          /\ factory'.owner = factory.proposal.owner
    /\ maker'.owner # maker.owner =>
          /\ lastCall'.op = "maker_claim" /\ lastCall'.ok
          /\ maker'.owner = maker.proposal.owner

\* a pending proposal is one of the current owner: while a proposal waits,
\* the owner of its contract stays who it was when the proposal was made
ProposalsOfCurrentOwner ==
    /\ (store.proposal.set /\ store'.proposal.set /\ lastCall'.op # "pair_propose") =>
          OwnerOfPair(store', factory') = OwnerOfPair(store, factory)
    /\ (factory.proposal.set /\ factory'.proposal.set /\ lastCall'.op # "factory_propose") =>
          factory'.owner = factory.owner
    /\ (maker.proposal.set /\ maker'.proposal.set /\ lastCall'.op # "maker_propose") =>
          maker'.owner = maker.owner

\* C30: the owner of the pair, of the factory and of the maker changes
\* only through a ClaimOwnership of the address that a pending proposal of
\* the current owner names: only the owner proposes and drops, only the
\* proposed address claims, and after a drop a claim finds no proposal.
C30_OwnerChangesOnlyByClaim ==
    [][OnlyOwnerProposes /\ OnlyProposedClaims /\ DropRemovesProposal
       /\ OwnerChangesInClaim /\ ProposalsOfCurrentOwner]_vars

\* ------------------------------------------------------------------------
\* The maker as a state machine
\* ------------------------------------------------------------------------
MaxMakerOps == 4
MaxMakerTicks == 4

MakerInstantiateMsgs ==
    { [InitialMakerMsg EXCEPT !.collect_cooldown = c] :
        c \in {NONE, COOLDOWN_MIN - 1, COOLDOWN_MIN, COOLDOWN_MAX, COOLDOWN_MAX + 1} }
    \cup { [InitialMakerMsg EXCEPT !.astro_denom = "1a"],
           [InitialMakerMsg EXCEPT !.max_spread = MAX_ALLOWED_SPREAD + 100],
           [InitialMakerMsg EXCEPT !.satellite = "s"] }

NoMakerUpdate ==
    [sender |-> "owner", funds |-> FALSE, astro_denom |-> NoString, fee_receiver |-> NoString,
     max_spread |-> NONE, collect_cooldown |-> NONE]

MakerUpdateMsgs ==
    { [NoMakerUpdate EXCEPT !.collect_cooldown = c] :
        c \in {COOLDOWN_MIN - 1, COOLDOWN_MIN, COOLDOWN_MIN + 1, COOLDOWN_MAX + 1} }
    \cup { [NoMakerUpdate EXCEPT !.astro_denom = d] : d \in {"uusd", "1a"} }
    \cup { NoMakerUpdate,
           [NoMakerUpdate EXCEPT !.sender = "user", !.astro_denom = "uusd"],
           [NoMakerUpdate EXCEPT !.funds = TRUE, !.astro_denom = "uusd"],
           [NoMakerUpdate EXCEPT !.fee_receiver = "s"],
           [NoMakerUpdate EXCEPT !.max_spread = MAX_ALLOWED_SPREAD + 100] }

MakerDenoms == {"astro", "uusd", "uatom", "utest"}

\* the routes over denoms a pool holds, and two over denoms it lacks
PoolRoutes ==
    { [denom_in |-> i, denom_out |-> o, pool_id |-> p] :
        i \in MakerDenoms, o \in MakerDenoms, p \in PoolIds }

MakerRoutes ==
    { r \in PoolRoutes : /\ r.denom_in # r.denom_out
                         /\ r.denom_in \in PoolDenoms(r.pool_id) \ {"astro"}
                         /\ r.denom_out \in PoolDenoms(r.pool_id) }
    \cup { [denom_in |-> "astro", denom_out |-> "uusd", pool_id |-> 1],
           [denom_in |-> "uusd", denom_out |-> "astro", pool_id |-> 2],
           [denom_in |-> "utest", denom_out |-> "astro", pool_id |-> 1],
           [denom_in |-> "uusd", denom_out |-> "astro", pool_id |-> 4] }

SetPoolRoutesMsgs ==
    { [sender |-> "owner", funds |-> FALSE, routes |-> rs] :
        rs \in {<<>>} \cup { <<r>> : r \in MakerRoutes }
                      \cup { rq \in MakerRoutes \X MakerRoutes :
                                /\ rq[2].denom_in = rq[1].denom_out
                                /\ rq[1].denom_in \in PoolDenoms(rq[1].pool_id) } }
    \cup { [sender |-> s, funds |-> f,
            routes |-> << [denom_in |-> "uusd", denom_out |-> "astro", pool_id |-> 1] >>] :
            s \in {"owner", "user"}, f \in BOOLEAN }
    \cup { [sender |-> "owner", funds |-> FALSE,
            routes |-> << [denom_in |-> "uusd", denom_out |-> "astro", pool_id |-> 1],
                          [denom_in |-> "uusd", denom_out |-> "uatom", pool_id |-> 2] >>] }

MakerBalances ==
    { [d \in MakerDenoms |-> 10], [d \in MakerDenoms |-> 0],
      [d \in MakerDenoms |-> IF d = "uusd" THEN 0 ELSE 10] }

CollectAssets ==
    { <<>>,
      << [denom |-> "uusd", amount |-> NONE] >>,
      << [denom |-> "uatom", amount |-> 4] >>,
      << [denom |-> "uusd", amount |-> NONE], [denom |-> "utest", amount |-> NONE] >> }

CollectMsgs ==
    { [funds |-> FALSE, assets |-> a, balances |-> b, spot_ok |-> TRUE, swaps_ok |-> TRUE] :
        a \in CollectAssets, b \in MakerBalances }
    \cup { [funds |-> f, assets |-> << [denom |-> "uusd", amount |-> NONE] >>,
            balances |-> [d \in MakerDenoms |-> 10], spot_ok |-> p, swaps_ok |-> w] :
            f \in BOOLEAN, p \in BOOLEAN, w \in BOOLEAN }

\* the chain before the maker's contract is instantiated
InitMaker ==
    /\ store = InstantiatedStore(ONE, FALSE)
    /\ bank = <<0, 0>>
    /\ lp_supply = 0
    /\ lp_held = 0
    /\ factory = PoolFactory
    /\ maker = NoMaker
    /\ now = 0
    /\ lastCall = NoCall
    /\ nops = 0
    /\ nticks = 0

CommitMakerInstantiate(msg) ==
    CommitMaker("maker_instantiate", maker_instantiate(maker, now, msg))

CommitCollect(msg) ==
    CommitMaker("collect", nonpayable(maker, msg, collect(maker, now, msg)))

CommitMakerUpdate(msg) ==
    CommitMaker("maker_update_config", nonpayable(maker, msg, maker_update_config(maker, msg)))

CommitSetPoolRoutes(msg) ==
    CommitMaker("set_pool_routes", nonpayable(maker, msg, set_pool_routes(maker, msg)))

\* the host instantiates a contract once; a failed instantiate leaves no
\* contract behind
MakerInstantiate(msgs, lim) ==
    nops < lim /\ ~maker.instantiated /\ \E msg \in msgs : CommitMakerInstantiate(msg)

Collect(msgs, lim) ==
    nops < lim /\ maker.instantiated /\ \E msg \in msgs : CommitCollect(msg)

MakerUpdateConfig(msgs, lim) ==
    nops < lim /\ maker.instantiated /\ \E msg \in msgs : CommitMakerUpdate(msg)

SetPoolRoutes(msgs, lim) ==
    nops < lim /\ maker.instantiated /\ \E msg \in msgs : CommitSetPoolRoutes(msg)

MakerNext ==
    \/ MakerInstantiate(MakerInstantiateMsgs, MaxMakerOps)
    \/ Collect(CollectMsgs, MaxMakerOps)
    \/ MakerUpdateConfig(MakerUpdateMsgs, MaxMakerOps)
    \/ SetPoolRoutes(SetPoolRoutesMsgs, MaxMakerOps)
    \/ NextBlock(MaxMakerTicks)

MakerSpec == InitMaker /\ [][MakerNext]_vars

\* ------------------------------------------------------------------------
\* The cooldown of Collect
\* ------------------------------------------------------------------------
\* what a Collect in (maker, now) owes to the cooldown, for the messages
\* that `covered` names
CooldownKept(covered) ==
    lastCall'.op = "collect" =>
    \A msg \in CollectMsgs : CommitCollect(msg) =>
        LET cd == maker.collect_cooldown
            last == maker.last_collect_ts
        IN /\ (covered[msg] /\ cd # NONE /\ now < last + cd) =>
                 /\ ~lastCall'.ok
                 /\ lastCall'.err = "Cooldown"
                 /\ lastCall'.out.next_collect_ts = last + cd
           /\ lastCall'.ok =>
                 /\ maker'.last_collect_ts = now
                 /\ cd # NONE => now >= last + cd
           /\ ~lastCall'.ok => maker' = maker

\* LAST_COLLECT_TS moves only in a successful Collect (and in instantiate)
OnlyCollectStamps ==
    maker'.last_collect_ts # maker.last_collect_ts =>
        lastCall'.ok /\ lastCall'.op \in {"collect", "maker_instantiate"}

\* C31: with collect_cooldown = Some(cd), a Collect that carries no funds
\* and names at least one asset fails with Cooldown { last_collect_ts + cd }
\* at a block time before last_collect_ts + cd; a successful Collect sets
\* last_collect_ts to the block time, a failed one leaves it, and nothing
\* else moves it, so two successful Collects are at least cd apart.
C31_CooldownOfNamedAssets ==
    [][CooldownKept([msg \in CollectMsgs |-> ~msg.funds /\ msg.assets # <<>>])
       /\ OnlyCollectStamps]_vars

\* C31 as stated: every Collect before last_collect_ts + cd fails with
\* Cooldown.
C31_CooldownOfEveryCollect ==
    [][CooldownKept([msg \in CollectMsgs |-> TRUE]) /\ OnlyCollectStamps]_vars

\* a Collect was refused for the cooldown
C31_CollectRefusedInCooldown ==
    /\ lastCall.op = "collect"
    /\ lastCall.err = "Cooldown"
    /\ maker.collect_cooldown # NONE
    /\ now < maker.last_collect_ts + maker.collect_cooldown

\* ------------------------------------------------------------------------
\* The cooldown the maker is instantiated with
\* ------------------------------------------------------------------------
\* C32: an instantiate of the maker with collect_cooldown = Some(c), c
\* within COOLDOWN_LIMITS, stores collect_cooldown = Some(c); with c
\* outside the limits it fails with IncorrectCooldown.
C32_InstantiateStoresCooldown ==
    [][\A msg \in MakerInstantiateMsgs : CommitMakerInstantiate(msg) =>
          /\ (lastCall'.ok /\ msg.collect_cooldown # NONE) =>
                maker'.collect_cooldown = msg.collect_cooldown
          /\ (msg = [InitialMakerMsg EXCEPT !.collect_cooldown = msg.collect_cooldown]
              /\ msg.collect_cooldown # NONE
              /\ msg.collect_cooldown \notin COOLDOWN_MIN..COOLDOWN_MAX) =>
                ~lastCall'.ok /\ lastCall'.err = "IncorrectCooldown"]_vars

\* ------------------------------------------------------------------------
\* The routes of the maker
\* ------------------------------------------------------------------------
\* denom reaches astro_denom along stored routes in at most `hops` hops
\* and through no denom of `seen`
RECURSIVE Reaches(_, _, _, _, _)
Reaches(routes, denom, astro_denom, hops, seen) ==
    \/ denom = astro_denom
    \/ /\ hops > 0
       /\ \E r \in routes :
             /\ r.denom_in = denom
             /\ r.denom_out \notin seen
             /\ Reaches(routes, r.denom_out, astro_denom, hops - 1, seen \cup {r.denom_out})

\* denom_in reaches astro_denom along stored routes, in at most
\* MAX_SWAPS_DEPTH hops and through no denom twice
Resolves(routes, denom_in, astro_denom) ==
    Reaches(routes, denom_in, astro_denom, MAX_SWAPS_DEPTH, {denom_in})

\* ROUTES with the routes of a message written over it
Overlaid(routes, named) ==
    { r \in routes : \A i \in DOMAIN named : named[i].denom_in # r.denom_in }
    \cup { named[i] : i \in DOMAIN named }

\* the messages the statement says are refused in (maker)
RefusedRoutes(msg) ==
    \/ msg.routes = <<>>
    \/ \E i, k \in DOMAIN msg.routes :
          i # k /\ msg.routes[i].denom_in = msg.routes[k].denom_in
    \/ \E i \in DOMAIN msg.routes : msg.routes[i].denom_in = maker.astro_denom
    \/ \E i \in DOMAIN msg.routes :
          \/ msg.routes[i].pool_id \notin PoolIds
          \/ msg.routes[i].denom_in \notin PoolDenoms(msg.routes[i].pool_id)
          \/ msg.routes[i].denom_out \notin PoolDenoms(msg.routes[i].pool_id)
    \/ msg.sender # maker.owner
    \/ \E i \in DOMAIN msg.routes :
          ~Resolves(Overlaid(maker.routes, msg.routes), msg.routes[i].denom_in,
                    maker.astro_denom)

\* C33: after a successful SetPoolRoutes every route of the message is
\* stored and every denom_in it names reaches astro_denom along the stored
\* routes in at most MAX_SWAPS_DEPTH hops and without a loop; a message
\* that is empty, repeats a denom_in, starts at astro_denom, names a pool
\* without denom_in or denom_out, comes from another sender than the owner
\* or leaves a named denom without a path to astro_denom fails, and a
\* failed SetPoolRoutes stores nothing.
C33_RoutesReachAstro ==
    [][lastCall'.op = "set_pool_routes" =>
       \A msg \in SetPoolRoutesMsgs : CommitSetPoolRoutes(msg) =>
          /\ lastCall'.ok =>
                \A i \in DOMAIN msg.routes :
                    /\ msg.routes[i] \in maker'.routes
                    /\ Resolves(maker'.routes, msg.routes[i].denom_in, maker.astro_denom)
          /\ RefusedRoutes(msg) => ~lastCall'.ok
          /\ ~lastCall'.ok => maker' = maker]_vars

\* a SetPoolRoutes went through that stored a route of two hops
C33_TwoHopsStored ==
    /\ lastCall.op = "set_pool_routes"
    /\ lastCall.ok
    /\ \E r \in maker.routes :
          /\ r.denom_out # maker.astro_denom
          /\ Resolves(maker.routes, r.denom_in, maker.astro_denom)

\* C38: every denom that has a stored route reaches the configured
\* astro_denom along the stored routes within MAX_SWAPS_DEPTH hops.
C38_StoredRoutesReachAstro ==
    \A r \in maker.routes : Resolves(maker.routes, r.denom_in, maker.astro_denom)

\* ------------------------------------------------------------------------
\* SWAP_PARAMS between transactions
\* ------------------------------------------------------------------------
\* C34: SWAP_PARAMS is absent whenever a transaction has completed: the
\* parameters a pair-dispatched Swap stores are removed by the sudo
\* SwapExactAmountIn of the same transaction, so that a sudo
\* SwapExactAmountIn the DEX module calls directly finds none and uses the
\* figures of its own message.
C34_NoStoredSwapParams == ~store.swap_params.set

\* a pair-dispatched Swap went through and left no parameters behind
C34_DispatchedSwapConsumed ==
    /\ lastCall.op = "swap"
    /\ lastCall.ok
    /\ lastCall.writes >= 2
    /\ ~store.swap_params.set

\* ------------------------------------------------------------------------
\* The LP supply from the first Provide on
\* ------------------------------------------------------------------------
MaxSupplyOps == 4
MaxSupplyTicks == 1

SupplyProvideMsgs ==
    { ProvideMsg(2, 200, 200, 500), ProvideMsg(2, 5, 6, 500), ProvideMsg(2, 50, 50, 500) }

\* a provider withdraws part of what is outside the pair, or all of it
SupplyWithdrawMsgs ==
    { [amount |-> a, custom |-> FALSE] : a \in {50, lp_supply - lp_held} }

SupplySwapMsgs ==
    { [offer_ind |-> i, amount |-> 20, belief_price |-> NONE, max_spread |-> 500] :
        i \in {1, 2} }

SupplyNext ==
    \/ ProvideLiquidity(SupplyProvideMsgs, MaxSupplyOps)
    \/ WithdrawLiquidity(SupplyWithdrawMsgs, MaxSupplyOps)
    \/ Swap(SupplySwapMsgs, MaxSupplyOps)
    \/ NextBlock(MaxSupplyTicks)

SupplySpec == Init /\ [][SupplyNext]_vars

\* C35: once LP tokens exist their supply never falls below
\* MINIMUM_LIQUIDITY_AMOUNT and never returns to zero, so that the
\* empty-pool branch of Provide runs in a pool without LP supply only, and
\* no Withdraw divides by a remaining supply of zero, whatever the
\* providers withdraw of their balances.
C35_MinimumLiquidityStays ==
    [][/\ lp_supply' > 0 => lp_supply' >= MINIMUM_LIQUIDITY_AMOUNT
       /\ lp_supply > 0 => lp_supply' > 0
       /\ (nops' # nops /\ lastCall'.op = "provide" /\ lastCall'.ok /\ lastCall'.out.first) =>
             lp_supply = 0
       /\ (nops' # nops /\ lastCall'.op = "withdraw") =>
             /\ lastCall'.err # "DivideByZero"
             /\ lastCall'.ok => lp_supply - lastCall'.out.lp_amount > 0]_vars

\* the providers have withdrawn all they held: what is left of the supply
\* is what the pair holds
C35_AllWithdrawn ==
    /\ lastCall.op = "withdraw"
    /\ lastCall.ok
    /\ lp_supply = lp_held
    /\ lp_supply = MINIMUM_LIQUIDITY_AMOUNT

\* ------------------------------------------------------------------------
\* BALANCES and the ledger
\* ------------------------------------------------------------------------
\* C36: with asset-balance tracking enabled, the snapshot that a
\* successful Provide, Withdraw, SwapExactAmountIn (dispatched by the pair
\* or called by the DEX module) or SwapExactAmountOut stores in BALANCES
\* equals, for both pool assets, the pair's bank balance after the
\* transfers of the operation.
C36_SnapshotIsLedger ==
    [][(nops' # nops /\ lastCall'.op \in PoolOps /\ lastCall'.ok
        /\ store'.config.track_asset_balances) => store'.balances = bank']_vars

\* a swap with tracking enabled has paid the receiver and the fee address
C36_TrackedSwapPaidFee ==
    /\ lastCall.op \in {"swap", "sudo_in", "sudo_out"}
    /\ lastCall.ok
    /\ store.config.track_asset_balances
    /\ lastCall.out.to_receiver > 0
    /\ lastCall.out.to_fee > 0
    /\ store.balances = bank

CommitReverse(msg) ==
    CommitSwap("sudo_out",
               swap_exact_amount_out(store, bank, lp_supply, factory, now,
                   msg.offer_ind, msg.token_in_max_amount, msg.ask_ind, msg.token_out))

\* C39: in every successful sudo SwapExactAmountOut the amount of
\* token_out sent to the sender is at least the requested token_out.amount.
C39_ReceivesAtLeastTokenOut ==
    [][lastCall'.op = "sudo_out" =>
         \A msg \in ReverseMsgs :
            (CommitReverse(msg) /\ lastCall'.ok) =>
                lastCall'.out.to_receiver >= msg.token_out]_vars

\* ------------------------------------------------------------------------
\* The oracle price within one block
\* ------------------------------------------------------------------------
\* the operations that hand the price state to update_price
PriceMovingOps == {"provide", "swap", "sudo_in", "sudo_out"}

\* C40: a Provide or a swap that runs when no time has passed since
\* last_price_update leaves oracle_price as it was, so the trades of one
\* block do not move the oracle price.
C40_OracleKeptWithinBlock ==
    [][(nops' # nops /\ lastCall'.op \in PriceMovingOps
        /\ store.config.price_state.last_price_update = now) =>
           store'.config.price_state.oracle_price = store.config.price_state.oracle_price]_vars

\* a second trade of the first block has moved last_price away from the
\* oracle price
C40_SecondTradeOfBlock ==
    /\ nticks = 0
    /\ nops >= 2
    /\ lastCall.op \in {"swap", "sudo_in", "sudo_out"}
    /\ lastCall.ok
    /\ lastCall.out.price_updated
    /\ store.config.price_state.last_price_update = now
    /\ store.config.price_state.last_price # store.config.price_state.oracle_price

====
